---- MODULE Spec2Model ----
(***************************************************************************)
(* FastGo: segment trie (router.go), Router / RouteGroup, Context dispatch *)
(* (context.go) and the response write path, as state machines.            *)
(*                                                                         *)
(* Strings are sequences of one-character strings, so that splitPath,      *)
(* part[0], strings.TrimPrefix and strings.Join are computed and not       *)
(* assumed.  A nil slice / nil map is the empty sequence / empty function. *)
(***************************************************************************)
EXTENDS Integers, Sequences, FiniteSets, TLC

VARIABLES
    tree,       \* routeNode arena of one method tree; node 1 is the root
    regs,       \* paths registered so far on tree, in order (history)
    req,        \* [path, parts]: the last request handed to FindChild, or NoReq
    found,      \* FindChild's result for req: [node, params]
    walk,       \* per request segment: which child FindChild took and how
    router,     \* Router.route: method -> routeNode arena
    group,      \* a RouteGroup of router: [prefix, handlers]
    handlerChain, \* core.handlerChain
    ctx,        \* the pooled Context
    writer,     \* the http.ResponseWriter of the request: what reached the wire
    stack,      \* call stack of the request's goroutine, innermost frame last
    log,        \* what the handlers of the current request did, in order (history)
    phase,      \* "setup" (registration), "serving" (in ServeHTTP), "idle"
    served,     \* number of requests ServeHTTP has taken
    calls,      \* number of response calls made on ctx since its Reset
    pool,       \* core.contextPool: the Contexts that were Put and not taken
    ctxs,       \* the Contexts the pool's New made: [made, c, w, by]
    writers,    \* per ServeHTTP call, its http.ResponseWriter
    reqs,       \* per ServeHTTP call, its goroutine: [pc, ctx, saw]
    tasks,      \* per ServeHTTP call, the goroutine its handler spawned
    routerA,    \* the Router that is merged in (other)
    routerB,    \* the Router that MergeRouter is called on
    regsA,      \* registrations made on routerA, in order (history)
    regsB,      \* registrations made on routerB, in order (history)
    merged,     \* routerB.MergeRouter(routerA) has run
    mreq,       \* the last lookup on routerB and its result
    groups,     \* the RouteGroups of router: [prefix, handlers], handlers a slice
    arrays,     \* the backing arrays of the HandleFuncChain slices
    groupLog,   \* the Use and VERB calls made on the groups, in order (history)
    storeMutex, \* Context.storeMutex of ctx: [w: the goroutine holding Lock, r: those holding RLock]
    mapBusy,    \* the goroutine that is in the middle of writing the map ctx.store, or 0
    subs,       \* the goroutines a handler spawned that call Get and Set on ctx
    storeHist,  \* per key: the values written, in order, and how many of them by Sets that returned (history)
    nodes,      \* the routeNodes of two Routers that point into each other after a merge
    rootsA,     \* Router.route of `other`: method -> its root in nodes
    rootsB,     \* Router.route of the Router MergeRouter is called on
    fifo,       \* a HighPerformanceFIFO: [buffer, head, tail, closed]
    fprocs,     \* the goroutines that call Enqueue and Dequeue on fifo
    fhist,      \* what took effect on fifo: [put, got] by position (history)
    spsc,       \* a LockFreeSPSCQueue: [buffer, read, write]
    sprocs,     \* its producer and its consumer goroutine
    shist,      \* what was pushed and popped, and the calls that failed (history)
    fw,         \* a FileWriter: [made, mu, maxSize, size, backups]
    wprocs,     \* the goroutines that call Write on fw
    pr          \* the last ParseRange call: [header, totalSize, specs, isRange, err]

trieVars == <<tree, regs, req, found, walk>>
dispatchVars == <<router, group, handlerChain, ctx, writer, stack, log, phase, served>>
poolVars == <<pool, ctxs, writers, reqs, tasks>>
mergeVars == <<routerA, routerB, regsA, regsB, merged, mreq>>
groupVars == <<groups, arrays, groupLog>>
storeVars == <<storeMutex, mapBusy, subs, storeHist>>
shareVars == <<nodes, rootsA, rootsB>>
queueVars == <<fifo, fprocs, fhist, spsc, sprocs, shist>>
fileVars == <<fw, wprocs>>
rangeVars == <<pr>>
lateVars == <<queueVars, fileVars, rangeVars>>
auxVars == <<poolVars, mergeVars, groupVars, storeVars, shareVars, lateVars>>
vars == <<trieVars, dispatchVars, calls, auxVars>>

----------------------------------------------------------------------------
(* Bounds                                                                  *)

MaxRoutes == 3      \* registrations on the tree
MaxSegs == 2        \* segments of a registered path
MaxReqSegs == 3     \* segments of a request path

----------------------------------------------------------------------------
(* Strings                                                                 *)

Slash == "/"
Colon == ":"
Star == "*"

RECURSIVE TrimLeft(_)
TrimLeft(s) ==
    IF s # <<>> /\ Head(s) = Slash THEN TrimLeft(Tail(s)) ELSE s

RECURSIVE TrimRight(_)
TrimRight(s) ==
    IF s # <<>> /\ s[Len(s)] = Slash
    THEN TrimRight(SubSeq(s, 1, Len(s) - 1)) ELSE s

\* strings.Trim(s, "/")
Trim(s) == TrimRight(TrimLeft(s))

\* strings.Split(s, "/"): n separators give n+1 fields, empty fields kept
RECURSIVE SplitFrom(_, _, _)
SplitFrom(s, i, cur) ==
    IF i > Len(s) THEN <<cur>>
    ELSE IF s[i] = Slash THEN <<cur>> \o SplitFrom(s, i + 1, <<>>)
    ELSE SplitFrom(s, i + 1, Append(cur, s[i]))

Split(s) == SplitFrom(s, 1, <<>>)

\* strings.Join(parts, "/")
RECURSIVE Join(_)
Join(parts) ==
    IF parts = <<>> THEN <<>>
    ELSE IF Len(parts) = 1 THEN parts[1]
    ELSE parts[1] \o <<Slash>> \o Join(Tail(parts))

\* strings.Contains(s, ch) for a one-character ch
Contains(s, ch) == \E i \in 1..Len(s) : s[i] = ch

\* variant of splitPath with a fault: a slash at the end stays with the last segment
splitPath_keepTrailing(path) ==
    IF path = <<Slash>> THEN <<>>
    ELSE LET t == TrimLeft(path) IN
         IF t = <<>> THEN <<>>
         ELSE IF t[Len(t)] = Slash
              THEN LET ps == Split(TrimRight(t))
                   IN  [ps EXCEPT ![Len(ps)] = Append(@, Slash)]
              ELSE Split(t)

splitPath(path) ==
    IF path = <<Slash>> THEN <<>>
    ELSE LET t == Trim(path) IN
         IF t = <<>> THEN <<>> ELSE Split(t)

----------------------------------------------------------------------------
(* routeNode                                                               *)

static == 0
root == 1
param == 2
catchAll == 3

NilChain == <<>>
NilNode == 0

NewTire ==
    [path |-> <<>>, indices |-> <<>>, children |-> <<>>, Handlers |-> NilChain,
     priority |-> 0, nType |-> root, maxParams |-> 0, wildChild |-> FALSE,
     paramName |-> <<>>]

Max(a, b) == IF a > b THEN a ELSE b

RECURSIVE calculateMaxParams(_, _)
RECURSIVE maxChildParams(_, _, _)
calculateMaxParams(t, n) ==
    LET currentParams ==
            IF t[n].nType = param \/ t[n].nType = catchAll THEN 1 ELSE 0
    IN  (currentParams + maxChildParams(t, t[n].children, 1)) % 256

maxChildParams(t, cs, i) ==
    IF i > Len(cs) THEN 0
    ELSE Max(calculateMaxParams(t, cs[i]), maxChildParams(t, cs, i + 1))

\* first child of n whose path is part, or NilNode
RECURSIVE childByPath(_, _, _, _)
childByPath(t, n, part, i) ==
    IF i > Len(t[n].children) THEN NilNode
    ELSE IF t[t[n].children[i]].path = part THEN t[n].children[i]
    ELSE childByPath(t, n, part, i + 1)

\* first child of n of the given kind (and wildChild, for catchAll), or NilNode
RECURSIVE childByType(_, _, _, _)
childByType(t, n, ty, i) ==
    IF i > Len(t[n].children) THEN NilNode
    ELSE IF /\ t[t[n].children[i]].nType = ty
            /\ (ty = catchAll => t[t[n].children[i]].wildChild)
         THEN t[n].children[i]
    ELSE childByType(t, n, ty, i + 1)

addIndex(indices, ch) == IF Contains(indices, ch) THEN indices ELSE Append(indices, ch)

\* one iteration of Insert's loop over parts: [t, cur] after the iteration
InsertPart(t, current, part) ==
    IF part = <<>> THEN [t |-> t, cur |-> current]
    ELSE
    LET existing == childByPath(t, current, part, 1) IN
    IF existing # NilNode
    THEN [t |-> [t EXCEPT ![current].maxParams = calculateMaxParams(t, current)],
          cur |-> existing]
    ELSE
    LET id == Len(t) + 1
        kind == IF part[1] = Colon THEN param
                ELSE IF part[1] = Star THEN catchAll ELSE static
        child == [path |-> part, indices |-> <<>>, children |-> <<>>,
                  Handlers |-> NilChain,
                  priority |-> t[current].priority + 1,   \* uint32; the depth is bounded
                  nType |-> kind, maxParams |-> 0,
                  wildChild |-> (kind = catchAll),
                  paramName |-> IF kind = static THEN <<>> ELSE Tail(part)]
        linked == [Append(t, child) EXCEPT
                     ![current].children = Append(@, id),
                     ![current].indices = addIndex(@, part[1])]
    IN  IF kind = catchAll
        \* the break leaves the switch, not the loop: current is already the
        \* child when maxParams is recomputed, and the loop goes on
        THEN [t |-> [linked EXCEPT ![id].maxParams = calculateMaxParams(linked, id)],
              cur |-> id]
        ELSE [t |-> [linked EXCEPT ![current].maxParams = calculateMaxParams(linked, current)],
              cur |-> id]

RECURSIVE InsertParts(_, _, _, _)
InsertParts(t, current, parts, i) ==
    IF i > Len(parts) THEN [t |-> t, cur |-> current]
    ELSE LET s == InsertPart(t, current, parts[i])
         IN  InsertParts(s.t, s.cur, parts, i + 1)

\* variant of Insert with a fault: a node that has a chain keeps it
Insert_keepFirst(t, path, handlers) ==
    IF Len(path) = 0 THEN t
    ELSE LET s == InsertParts(t, 1, splitPath(path), 1)
         IN  IF s.t[s.cur].Handlers # NilChain THEN s.t
             ELSE [s.t EXCEPT ![s.cur].Handlers = handlers]

Insert(t, path, handlers) ==
    IF Len(path) = 0 THEN t
    ELSE LET s == InsertParts(t, 1, splitPath(path), 1)
         IN  [s.t EXCEPT ![s.cur].Handlers = handlers]

EmptyMap == [k \in {} |-> <<>>]

MapPut(m, k, v) == [x \in (DOMAIN m) \cup {k} |-> IF x = k THEN v ELSE m[x]]

NoStep == [child |-> NilNode, via |-> "none", key |-> <<>>, val |-> <<>>, last |-> FALSE]

\* variant of matchStep with a fault: the parameter child is tried before the exact match
matchStep_paramFirst(t, current, parts, idx) ==
    LET part == parts[idx]
        byParam == childByType(t, current, param, 1)
        byPath == childByPath(t, current, part, 1)
        byCatch == childByType(t, current, catchAll, 1)
    IN  IF byParam # NilNode
        THEN [child |-> byParam, via |-> "param", key |-> t[byParam].paramName,
              val |-> part, last |-> FALSE]
        ELSE IF byPath # NilNode
        THEN [child |-> byPath, via |-> "path", key |-> <<>>, val |-> <<>>,
              last |-> FALSE]
        ELSE IF byCatch # NilNode
        THEN [child |-> byCatch, via |-> "catchAll",
              key |-> IF t[byCatch].paramName = <<>> THEN <<Star>>
                      ELSE t[byCatch].paramName,
              val |-> Join(SubSeq(parts, idx, Len(parts))), last |-> TRUE]
        ELSE NoStep

\* FindChild's choice for parts[idx] below current: 1. a child whose path is
\* the segment, 2. the param child, 3. the catch-all child, which takes all
\* remaining segments and ends the loop
matchStep(t, current, parts, idx) ==
    LET part == parts[idx]
        byPath == childByPath(t, current, part, 1)
        byParam == childByType(t, current, param, 1)
        byCatch == childByType(t, current, catchAll, 1)
    IN  IF byPath # NilNode
        THEN [child |-> byPath, via |-> "path", key |-> <<>>, val |-> <<>>,
              last |-> FALSE]
        ELSE IF byParam # NilNode
        THEN [child |-> byParam, via |-> "param", key |-> t[byParam].paramName,
              val |-> part, last |-> FALSE]
        ELSE IF byCatch # NilNode
        THEN [child |-> byCatch, via |-> "catchAll",
              key |-> IF t[byCatch].paramName = <<>> THEN <<Star>>
                      ELSE t[byCatch].paramName,
              val |-> Join(SubSeq(parts, idx, Len(parts))), last |-> TRUE]
        ELSE NoStep

\* the loop of FindChild from segment idx on; steps is the record of the
\* descent so far (one entry per non-empty segment consumed)
RECURSIVE findLoop(_, _, _, _, _, _)
findLoop(t, parts, idx, current, params, steps) ==
    IF idx > Len(parts) THEN [node |-> current, params |-> params, steps |-> steps]
    ELSE IF parts[idx] = <<>> THEN findLoop(t, parts, idx + 1, current, params, steps)
    ELSE IF Len(t[current].children) = 0
         THEN [node |-> NilNode, params |-> EmptyMap, steps |-> steps]
    ELSE LET m == matchStep(t, current, parts, idx)
             step == [parent |-> current, idx |-> idx, child |-> m.child,
                      via |-> m.via, key |-> m.key]
         IN  IF m.child = NilNode
             THEN [node |-> NilNode, params |-> EmptyMap, steps |-> Append(steps, step)]
             ELSE findLoop(t, parts, IF m.last THEN Len(parts) + 1 ELSE idx + 1,
                           m.child,
                           IF m.via = "path" THEN params ELSE MapPut(params, m.key, m.val),
                           Append(steps, step))

\* FindChild(path): [node, params, steps]; node = NilNode is the nil result
FindChild(t, path) ==
    IF path = <<>> THEN [node |-> NilNode, params |-> EmptyMap, steps |-> <<>>]
    ELSE LET r == findLoop(t, splitPath(path), 1, 1, EmptyMap, <<>>)
         IN  IF r.node # NilNode /\ t[r.node].Handlers = NilChain /\ ~t[r.node].wildChild
             THEN [node |-> NilNode, params |-> EmptyMap, steps |-> r.steps]
             ELSE r

----------------------------------------------------------------------------
(* Context: response side.  Operators take and return the pair             *)
(* [c |-> Context, w |-> ResponseWriter].                                  *)

StatusOK == 200
StatusNotFound == 404
StatusInternalServerError == 500

\* NewContext(nil, nil), as the pool's New makes it
NewContext ==
    [method |-> "", path |-> <<>>, params |-> EmptyMap, Params |-> <<>>,
     query |-> EmptyMap, statusCode |-> 0, headers |-> EmptyMap, store |-> EmptyMap,
     handlers |-> <<>>, index |-> -1, errors |-> <<>>,
     aborted |-> FALSE, written |-> FALSE]

\* a ResponseWriter nothing was written to: the WriteHeader calls, the
\* header map and the body chunks it received
NewWriter == [codes |-> <<>>, header |-> EmptyMap, body |-> <<>>]

\* Reset: params (the map SetParam fills) is not among the fields it clears
Reset(c, method, path, query) ==
    [c EXCEPT !.method = method, !.path = path, !.query = query, !.statusCode = 0,
              !.headers = EmptyMap, !.handlers = <<>>, !.index = -1,
              !.aborted = FALSE, !.written = FALSE, !.errors = <<>>,
              !.Params = <<>>, !.store = EmptyMap]

SetHandles(c, handlers) == [c EXCEPT !.handlers = handlers]

SetParam(c, key, value) == [c EXCEPT !.params = MapPut(@, key, value)]

\* Params.ByName: the first entry with the key, "" when there is none
RECURSIVE ByName(_, _)
ByName(ps, name) ==
    IF ps = <<>> THEN <<>>
    ELSE IF Head(ps).Key = name THEN Head(ps).Value
    ELSE ByName(Tail(ps), name)

GetPathParam(c, key) == ByName(c.Params, key)

SetStatus(cw, code) == [cw EXCEPT !.c.statusCode = code]

\* SetHeader(key, values...): the values joined by ", " are kept as the
\* sequence of the values
SetHeader(cw, key, values) ==
    IF Len(values) = 0 THEN cw
    ELSE [cw EXCEPT !.c.headers = MapPut(@, key, values),
                    !.w.header = MapPut(@, key, values)]

\* the bytes handed to Write: text as it is, or a marshalled value
Raw(text) == [enc |-> "raw", text |-> text, error |-> FALSE, status |-> 0]
Json(text) == [enc |-> "json", text |-> text, error |-> FALSE, status |-> 0]
Xml(text) == [enc |-> "xml", text |-> text, error |-> FALSE, status |-> 0]
FJError(message, code) == [enc |-> "json", text |-> message, error |-> TRUE, status |-> code]

\* variant of Write with a fault: the status line is flushed on every write
Write_alwaysFlush(cw, bytes) ==
    [cw EXCEPT !.w.codes = Append(@, cw.c.statusCode),
               !.c.written = TRUE,
               !.w.body = Append(@, bytes)]

Write(cw, bytes) ==
    IF ~cw.c.written
    THEN [cw EXCEPT !.w.codes = Append(@, cw.c.statusCode),
                    !.c.written = TRUE,
                    !.w.body = Append(@, bytes)]
    ELSE [cw EXCEPT !.w.body = Append(@, bytes)]

Abort(cw) == [cw EXCEPT !.c.aborted = TRUE]

SendString(cw, code, body) ==
    Write(SetHeader(SetStatus(cw, code), "Content-Type", <<"text/plain; charset=utf-8">>),
          Raw(body))

\* variant of HTTPNotFound with a fault: the 404 is written but the chain is not aborted
HTTPNotFound_noAbort(cw) ==
    Write(SetHeader(SetStatus(cw, StatusNotFound),
                    "Content-Type", <<"text/plain; charset=utf-8">>),
          Raw("404 Not Found"))

HTTPNotFound(cw) ==
    Abort(Write(SetHeader(SetStatus(cw, StatusNotFound),
                          "Content-Type", <<"text/plain; charset=utf-8">>),
                Raw("404 Not Found")))

\* unlike SendString, SendJson can fail before it writes: json.Marshal
\* reports an error (marshalOk = FALSE) and the 500 text goes out instead
SendJson(cw, code, jsonData, marshalOk) ==
    LET s == SetHeader(SetStatus(cw, code),
                       "Content-Type", <<"application/json; charset=utf-8">>)
    IN  IF ~marshalOk
        THEN SendString(s, StatusInternalServerError, "Internal Server Error")
        ELSE Write(s, jsonData)

SendHtml(cw, code, html) ==
    Write(SetHeader(SetStatus(cw, code), "Content-Type", <<"text/html; charset=utf-8">>),
          Raw(html))

SendXml(cw, code, xmlData, marshalOk) ==
    LET s == SetHeader(SetStatus(cw, code),
                       "Content-Type", <<"application/xml; charset=utf-8">>)
    IN  IF ~marshalOk
        THEN SendString(s, StatusInternalServerError, "Internal Server Error")
        ELSE Write(s, xmlData)

Data(cw, code, contentType, data) ==
    Write(SetHeader(SetStatus(cw, code), "Content-Type", <<contentType>>), data)

\* Fail and FailWithError: the FJ{error, message, status} body always marshals
Fail(cw, code, errorMsg) ==
    Abort(SendJson(SetHeader(SetStatus(cw, code),
                             "Content-Type", <<"application/json; charset=utf-8">>),
                   code, FJError(errorMsg, code), TRUE))

FailWithError(cw, code, err) == Fail(cw, code, err)

----------------------------------------------------------------------------
(* Inputs of the trie specification                                        *)

RouteSegs == { <<"a">>, <<Colon, "x">>, <<Star, "w">> }
ReqSegs == { <<"a">>, <<"c">>, <<Colon, "x">>, <<Star, "w">> }

SeqsUpTo(S, n) == UNION { [1..k -> S] : k \in 0..n }

\* "/" followed by the segments joined with "/"
PathOf(segs) == <<Slash>> \o Join(segs)

RoutePaths == { PathOf(s) : s \in SeqsUpTo(RouteSegs, MaxSegs) }
ReqPaths == { PathOf(s) : s \in SeqsUpTo(ReqSegs, MaxReqSegs) \ {<<>>} }

NoReq == [path |-> <<>>, parts |-> <<>>]

----------------------------------------------------------------------------
(* Router, RouteGroup and the dispatcher                                   *)

MaxChain == 3       \* handlers in core.handlerChain
MaxGroupUse == 1    \* middleware added to the group
MaxRequests == 1    \* requests served

\* A HandlerFunc is what it does with the Context, in order: "Next" calls
\* c.Next(), "Abort" calls c.Abort(), "GetPathParam" reads c.GetPathParam("x").
\* Router.HandleHTTP is the handler of kind "router".
Fn(prog) == [kind |-> "fn", prog |-> prog]
RouterHandler == [kind |-> "router", prog |-> <<>>]

getRoute(r, method) == IF method \in DOMAIN r THEN r[method] ELSE <<NewTire>>

\* Router.addRoute: getRoute stores the (new) tree, Insert fills it
addRoute(r, path, method, handlers) ==
    [m \in (DOMAIN r) \cup {method} |->
        IF m = method THEN Insert(getRoute(r, method), path, handlers) ELSE r[m]]

\* RouteGroup.addRoute: prefix + path, group middleware + handler
groupAddRoute(r, g, method, path, handler) ==
    addRoute(r, g.prefix \o path, method, Append(g.handlers, handler))

\* the SetParam loop of HandleHTTP over the map FindChild returned
bindParams(c, params) ==
    [c EXCEPT !.params =
        [k \in (DOMAIN @) \cup (DOMAIN params) |->
            IF k \in DOMAIN params THEN params[k] ELSE @[k]]]

\* variant of lookup with a fault: the matched node's chain is not tested for nil
lookup_noChainTest(r, c) ==
    IF c.method \notin DOMAIN r
    THEN [ok |-> FALSE, hs |-> NilChain, params |-> EmptyMap]
    ELSE LET m == FindChild(r[c.method], c.path) IN
         IF m.node = NilNode
         THEN [ok |-> FALSE, hs |-> NilChain, params |-> EmptyMap]
         ELSE [ok |-> TRUE, hs |-> r[c.method][m.node].Handlers, params |-> m.params]

\* HandleHTTP's lookup: the matched node's chain, or not found
lookup(r, c) ==
    IF c.method \notin DOMAIN r
    THEN [ok |-> FALSE, hs |-> NilChain, params |-> EmptyMap]
    ELSE LET m == FindChild(r[c.method], c.path) IN
         IF m.node = NilNode \/ r[c.method][m.node].Handlers = NilChain
         THEN [ok |-> FALSE, hs |-> NilChain, params |-> EmptyMap]
         ELSE [ok |-> TRUE, hs |-> r[c.method][m.node].Handlers, params |-> m.params]

\* variant of nextEntry with a fault: entering Next() clears aborted
nextEntry_clearAbort(c) == [c EXCEPT !.index = @ + 1, !.aborted = FALSE]

\* Next: c.index++ on entry
nextEntry(c) == [c EXCEPT !.index = @ + 1]

\* variant of nextShouldStop with a fault: the loop of Next does not look at aborted
nextShouldStop_never(c) == FALSE

\* Next: if c.aborted { return } at the head of each iteration
nextShouldStop(c) == c.aborted

\* variant of afterHandler with a fault: the cursor is not advanced after a handler returns
afterHandler_stay(c) == c

\* Next: the c.index++ of the for statement, after handlers[c.index](c)
afterHandler(c) == [c EXCEPT !.index = @ + 1]

Frame(f, lvl, k, prog, s) ==
    [f |-> f, lvl |-> lvl, k |-> k, prog |-> prog, pc |-> 1, s |-> s,
     hs |-> <<>>, i |-> 0]

ServeFrame == Frame("ServeHTTP", "", 0, <<>>, 0)
NextFrame(s) == Frame("Next", "", 0, <<>>, s)
HandlerFrame(lvl, k, h) ==
    Frame(IF h.kind = "router" THEN "HandleHTTP" ELSE "handler", lvl, k, h.prog, 0)

Event(ev, lvl, k, val) == [ev |-> ev, lvl |-> lvl, k |-> k, val |-> val]

Top == stack[Len(stack)]
Pop(st) == SubSeq(st, 1, Len(st) - 1)
SetTop(st, fr) == [st EXCEPT ![Len(st)] = fr]

DispatchInit ==
    /\ router = EmptyMap
    /\ group = [prefix |-> <<Slash, "a">>, handlers |-> <<>>]
    /\ handlerChain = <<>>
    /\ ctx = NewContext
    /\ writer = NewWriter
    /\ stack = <<>>
    /\ log = <<>>
    /\ phase = "setup"
    /\ served = 0

----------------------------------------------------------------------------
(* The context pool, the two Routers of a merge and the RouteGroups        *)

MaxConc == 2        \* ServeHTTP calls, each on its own goroutine
MaxCtx == 2         \* Contexts the pool's New makes

Reqs == 1..MaxConc
Ctxs == 1..MaxCtx

NoCtx == 0          \* no Context taken yet
NoWriter == 0       \* NewContext(nil, nil): c.writer = nil

\* a goroutine that writes through a Context: where it is, the Context it
\* holds, and what its read of c.written returned
Goroutine(pc, k) == [pc |-> pc, ctx |-> k, saw |-> FALSE]

PoolInit ==
    /\ pool = {}
    /\ ctxs = [k \in Ctxs |-> [made |-> FALSE, c |-> NewContext, w |-> NoWriter]]
    /\ writers = [r \in Reqs |-> NewWriter]
    /\ reqs = [r \in Reqs |-> Goroutine("new", NoCtx)]
    /\ tasks = [r \in Reqs |-> Goroutine("none", NoCtx)]

NoMatch == [method |-> "", path |-> <<>>, ok |-> FALSE, hs |-> NilChain,
            params |-> EmptyMap]

MergeInit ==
    /\ routerA = EmptyMap
    /\ routerB = EmptyMap
    /\ regsA = <<>>
    /\ regsB = <<>>
    /\ merged = FALSE
    /\ mreq = NoMatch

GroupInit ==
    /\ groups = <<>>
    /\ arrays = <<>>
    /\ groupLog = <<>>

MaxTasks == 2       \* goroutines that use the store of one Context
MaxOps == 2         \* Get and Set calls each of them makes

StoreKeys == { "user", "role" }
Absent == [exists |-> FALSE, value |-> <<>>]
Sub(pc) == [pc |-> pc, op |-> "", key |-> "", val |-> <<>>, n |-> 0,
            floor |-> 0, got |-> Absent, last |-> ""]

StoreInit ==
    /\ storeMutex = [w |-> 0, r |-> {}]
    /\ mapBusy = 0
    /\ subs = [t \in 1..MaxTasks |-> Sub("idle")]
    /\ storeHist = [k \in StoreKeys |-> [written |-> <<>>, returned |-> 0]]

ShareInit ==
    /\ nodes = <<>>
    /\ rootsA = EmptyMap
    /\ rootsB = EmptyMap

MaxFifoCapacity == 2    \* the capacity NewHighPerformanceFIFO is given
MaxFifoProcs == 2       \* goroutines that use the FIFO
MaxFifoCalls == 2       \* calls each of them makes
MaxSpscCapacity == 2    \* the capacity NewLockFreeSPSCQueue is given
MaxPush == 4            \* Push calls of the producer
MaxPop == 4             \* Pop calls of the consumer

\* a nil interface{} in a buffer slot or as a result
NilItem == <<>>

\* size := 1; for size < capacity { size <<= 1 }
RECURSIVE sizeFor(_, _)
sizeFor(size, capacity) == IF size < capacity THEN sizeFor(size * 2, capacity) ELSE size

NewHighPerformanceFIFO(capacity) ==
    [buffer |-> [i \in 1..sizeFor(1, capacity) |-> NilItem],
     head |-> 0, tail |-> 0,
     capacity |-> sizeFor(1, capacity), mask |-> sizeFor(1, capacity) - 1,
     closed |-> 0]

NewLockFreeSPSCQueue(capacity) ==
    [buffer |-> [i \in 1..sizeFor(1, capacity) |-> NilItem],
     read |-> 0, write |-> 0,
     capacity |-> sizeFor(1, capacity), mask |-> sizeFor(1, capacity) - 1]

\* a goroutine between two calls on a queue
IdleProc == [pc |-> "idle", item |-> NilItem, head |-> 0, tail |-> 0, n |-> 0,
             ret |-> [item |-> NilItem, ok |-> FALSE]]
IdleSide == [pc |-> "idle", item |-> NilItem, read |-> 0, write |-> 0, n |-> 0,
             ret |-> [item |-> NilItem, ok |-> FALSE]]

QueueInit ==
    /\ fifo = NewHighPerformanceFIFO(MaxFifoCapacity)
    /\ fprocs = [p \in 1..MaxFifoProcs |-> IdleProc]
    /\ fhist = [put |-> <<>>, got |-> EmptyMap]
    /\ spsc = NewLockFreeSPSCQueue(MaxSpscCapacity)
    /\ sprocs = [producer |-> IdleSide, consumer |-> IdleSide]
    /\ shist = [pushed |-> <<>>, popped |-> <<>>, failed |-> {}]

MaxWriters == 2         \* goroutines that call FileWriter.Write
MaxWrites == 2          \* Write calls of each of them
MaxLogSize == 2         \* the maxSize NewFileWriter is given, and the longest p

\* a goroutine that is not inside Write
IdleWriter == [pc |-> "idle", len |-> 0, n |-> 0, rotated |-> FALSE,
               ret |-> [n |-> 0, err |-> ""]]

\* no FileWriter yet
FileInit ==
    /\ fw = [made |-> FALSE, mu |-> 0, maxSize |-> 0, size |-> 0, backups |-> 0]
    /\ wprocs = [p \in 1..MaxWriters |-> IdleWriter]

NoRangeCall == [header |-> <<>>, totalSize |-> 0, specs |-> <<>>, isRange |-> FALSE,
                err |-> ""]

RangeInit == pr = NoRangeCall

----------------------------------------------------------------------------
(* Trie specification: registrations on one tree, then lookups             *)

TrieInit ==
    /\ tree = <<NewTire>>
    /\ regs = <<>>
    /\ req = NoReq
    /\ found = [node |-> NilNode, params |-> EmptyMap]
    /\ walk = <<>>

Init == TrieInit /\ DispatchInit /\ calls = 0 /\ PoolInit /\ MergeInit /\ GroupInit /\ StoreInit /\ ShareInit /\ QueueInit /\ FileInit /\ RangeInit

\* Router.addRoute on the method's tree; the chain is tagged with the number
\* of the registration
TrieInsert(path) ==
    /\ Len(regs) < MaxRoutes
    /\ req = NoReq
    /\ tree' = Insert(tree, path, <<Len(regs) + 1>>)
    /\ regs' = Append(regs, path)
    /\ UNCHANGED <<req, found, walk>>
    /\ UNCHANGED <<dispatchVars, calls, auxVars>>

TrieFind(path) ==
    /\ req = NoReq
    /\ LET r == FindChild(tree, path) IN
       /\ req' = [path |-> path, parts |-> splitPath(path)]
       /\ found' = [node |-> r.node, params |-> r.params]
       /\ walk' = r.steps
    /\ UNCHANGED <<tree, regs>>
    /\ UNCHANGED <<dispatchVars, calls, auxVars>>

TrieNext ==
    \/ \E p \in RoutePaths : TrieInsert(p)
    \/ \E p \in ReqPaths : TrieFind(p)

SpecTrie == Init /\ [][TrieNext]_vars

----------------------------------------------------------------------------
(* Claims about the trie                                                   *)

\* the static children of node n whose literal is the segment
staticChildrenFor(n, part) ==
    { c \in { tree[n].children[j] : j \in 1..Len(tree[n].children) } :
        tree[c].nType = static /\ tree[c].path = part }

hasChildOfType(n, ty) ==
    \E j \in 1..Len(tree[n].children) : tree[tree[n].children[j]].nType = ty

\* C1: static precedence.  At every level of FindChild's descent, when the
\* request segment equals the literal of a static child of the current
\* node, the descent takes that static child and binds no parameter for the
\* segment, whatever the order in which the siblings were inserted; a
\* request resolved through static children only has no parameters.
C1_StaticPrecedence ==
    /\ \A i \in 1..Len(walk) :
          staticChildrenFor(walk[i].parent, req.parts[walk[i].idx]) # {}
              => /\ walk[i].child \in
                        staticChildrenFor(walk[i].parent, req.parts[walk[i].idx])
                 /\ walk[i].via = "path"
    /\ ( /\ found.node # NilNode
         /\ \A i \in 1..Len(walk) :
               staticChildrenFor(walk[i].parent, req.parts[walk[i].idx]) # {} )
       => found.params = EmptyMap

\* C1 witness: below a node holding a static, a param and a catch-all child,
\* with the static child inserted last, a request segment equal to the
\* static literal has been resolved to a route.
C1_Witness ==
    /\ found.node # NilNode
    /\ tree[found.node].Handlers # NilChain
    /\ \E i \in 1..Len(walk) :
          /\ Len(walk) = 2 /\ i = 2
          /\ hasChildOfType(walk[i].parent, param)
          /\ hasChildOfType(walk[i].parent, catchAll)
          /\ walk[i].child \in staticChildrenFor(walk[i].parent, req.parts[walk[i].idx])
          /\ walk[i].child = tree[walk[i].parent].children[Len(tree[walk[i].parent].children)]

\* C2: parameter binding.  When a request resolves to a registered route,
\* every `:name` segment on the route binds name to the request's segment
\* text at that position, for every segment text.
C2_ParamBinding ==
    (found.node # NilNode /\ tree[found.node].Handlers # NilChain)
        => \A i \in 1..Len(walk) :
              tree[walk[i].child].nType = param
                  => /\ tree[walk[i].child].paramName \in DOMAIN found.params
                     /\ found.params[tree[walk[i].child].paramName]
                            = req.parts[walk[i].idx]

isLiteral(seg) == seg # <<>> /\ seg[1] # Colon /\ seg[1] # Star

\* the registered routes "/lit/.../lit/*name" that the request extends by one
\* or more segments
catchAllRoutesFor(q) ==
    { rp \in { splitPath(regs[k]) : k \in 1..Len(regs) } :
        /\ Len(rp) >= 1
        /\ rp[Len(rp)][1] = Star
        /\ Len(q) >= Len(rp)
        /\ \A i \in 1..(Len(rp) - 1) : isLiteral(rp[i]) /\ rp[i] = q[i] }

\* C3: catch-all binding.  For a registered route ending in `*name`, a
\* request that extends the route's prefix by one or more segments is
\* matched at the catch-all node, name is bound to the remaining segments
\* joined by "/", and the descent ends there.
C3_CatchAllBinding ==
    req # NoReq =>
        \A rp \in catchAllRoutesFor(req.parts) :
            /\ found.node # NilNode
            /\ tree[found.node].nType = catchAll
            /\ tree[found.node].path = rp[Len(rp)]
            /\ Len(walk) = Len(rp)
            /\ Tail(rp[Len(rp)]) \in DOMAIN found.params
            /\ found.params[Tail(rp[Len(rp)])]
                   = Join(SubSeq(req.parts, Len(rp), Len(req.parts)))

----------------------------------------------------------------------------
(* Dispatch specification: a chain and a group route are set up, then      *)
(* requests are served; every action is one step of the request goroutine  *)

ChainProgs == { <<>>, <<"Next">>, <<"Abort">>, <<"Abort", "Next">>, <<"Next", "Next">> }
ChainHandlers == { Fn(p) : p \in ChainProgs } \cup { RouterHandler }
GroupMiddleware == { Fn(<<"Next">>), Fn(<<"Abort">>) }
RouteHandlers == { Fn(<<"GetPathParam">>) }
GroupPaths == { <<Slash, Colon, "x">> }
Methods == { "GET", "POST" }
DispatchPaths == { <<Slash, "a", Slash, "c">>, <<Slash, "c">> }
ParamKey == <<"x">>

\* core.addHandler
addHandler(h) ==
    /\ phase = "setup"
    /\ Len(handlerChain) < MaxChain
    /\ handlerChain' = Append(handlerChain, h)
    /\ UNCHANGED <<router, group, ctx, writer, stack, log, phase, served>>
    /\ UNCHANGED <<trieVars, calls, auxVars>>

\* RouteGroup.Use
GroupUse(mw) ==
    /\ phase = "setup"
    /\ Len(group.handlers) < MaxGroupUse
    /\ group' = [group EXCEPT !.handlers = Append(@, mw)]
    /\ UNCHANGED <<router, handlerChain, ctx, writer, stack, log, phase, served>>
    /\ UNCHANGED <<trieVars, calls, auxVars>>

\* RouteGroup.GET
GroupGET(path, handler) ==
    /\ phase = "setup"
    /\ router' = groupAddRoute(router, group, "GET", path, handler)
    /\ router' # router
    /\ UNCHANGED <<group, handlerChain, ctx, writer, stack, log, phase, served>>
    /\ UNCHANGED <<trieVars, calls, auxVars>>

\* core.ServeHTTP up to the loop of the top-level Next(): pool Get, Reset,
\* SetHandles, and the c.index++ of Next
ServeHTTP(method, path) ==
    /\ phase \in {"setup", "idle"}
    /\ served < MaxRequests
    /\ ctx' = nextEntry(SetHandles(Reset(ctx, method, path, EmptyMap), handlerChain))
    /\ writer' = NewWriter
    /\ stack' = <<ServeFrame, NextFrame(Len(handlerChain))>>
    /\ log' = <<>>
    /\ phase' = "serving"
    /\ served' = served + 1
    /\ UNCHANGED <<router, group, handlerChain>>
    /\ UNCHANGED <<trieVars, calls, auxVars>>

\* Next: an iteration of the loop that calls handlers[c.index]
NextCallHandler ==
    /\ phase = "serving"
    /\ Top.f = "Next"
    /\ ctx.index < Top.s
    /\ ~nextShouldStop(ctx)
    /\ stack' = Append(stack, HandlerFrame("chain", ctx.index + 1, ctx.handlers[ctx.index + 1]))
    /\ log' = Append(log, Event("enter", "chain", ctx.index + 1, <<>>))
    /\ UNCHANGED <<router, group, handlerChain, ctx, writer, phase, served>>
    /\ UNCHANGED <<trieVars, calls, auxVars>>

\* Next returns: the cursor is past the chain, or aborted is set
NextReturn ==
    /\ phase = "serving"
    /\ Top.f = "Next"
    /\ (ctx.index >= Top.s \/ nextShouldStop(ctx))
    /\ stack' = Pop(stack)
    /\ log' = IF stack[Len(stack) - 1].f = "handler"
              THEN Append(log, Event("back", stack[Len(stack) - 1].lvl,
                                     stack[Len(stack) - 1].k, <<>>))
              ELSE log
    /\ UNCHANGED <<router, group, handlerChain, ctx, writer, phase, served>>
    /\ UNCHANGED <<trieVars, calls, auxVars>>

\* a handler calls c.Next()
HandlerNext ==
    /\ phase = "serving"
    /\ Top.f = "handler"
    /\ Top.pc <= Len(Top.prog)
    /\ Top.prog[Top.pc] = "Next"
    /\ ctx' = nextEntry(ctx)
    /\ stack' = Append(SetTop(stack, [Top EXCEPT !.pc = @ + 1]),
                       NextFrame(Len(ctx.handlers)))
    /\ log' = Append(log, Event("next", Top.lvl, Top.k, <<>>))
    /\ UNCHANGED <<router, group, handlerChain, writer, phase, served>>
    /\ UNCHANGED <<trieVars, calls, auxVars>>

\* a handler calls c.Abort()
HandlerAbort ==
    /\ phase = "serving"
    /\ Top.f = "handler"
    /\ Top.pc <= Len(Top.prog)
    /\ Top.prog[Top.pc] = "Abort"
    /\ LET cw == Abort([c |-> ctx, w |-> writer]) IN ctx' = cw.c /\ writer' = cw.w
    /\ stack' = SetTop(stack, [Top EXCEPT !.pc = @ + 1])
    /\ log' = Append(log, Event("abort", Top.lvl, Top.k, <<>>))
    /\ UNCHANGED <<router, group, handlerChain, phase, served>>
    /\ UNCHANGED <<trieVars, calls, auxVars>>

\* a handler reads c.GetPathParam("x")
HandlerGetPathParam ==
    /\ phase = "serving"
    /\ Top.f = "handler"
    /\ Top.pc <= Len(Top.prog)
    /\ Top.prog[Top.pc] = "GetPathParam"
    /\ stack' = SetTop(stack, [Top EXCEPT !.pc = @ + 1])
    /\ log' = Append(log, Event("read", Top.lvl, Top.k, GetPathParam(ctx, ParamKey)))
    /\ UNCHANGED <<router, group, handlerChain, ctx, writer, phase, served>>
    /\ UNCHANGED <<trieVars, calls, auxVars>>

\* the state of the caller's loop after the callee returned: Next advances
\* c.index, HandleHTTP's range loop advances to the next handler of the chain
returnTo(st, c) ==
    IF st[Len(st)].f = "Next" THEN [st |-> st, c |-> afterHandler(c)]
    ELSE [st |-> SetTop(st, [st[Len(st)] EXCEPT !.i = @ + 1]), c |-> c]

\* a handler returns to the loop that called it
HandlerReturn ==
    /\ phase = "serving"
    /\ Top.f = "handler"
    /\ Top.pc > Len(Top.prog)
    /\ LET r == returnTo(Pop(stack), ctx) IN stack' = r.st /\ ctx' = r.c
    /\ log' = Append(log, Event("exit", Top.lvl, Top.k, <<>>))
    /\ UNCHANGED <<router, group, handlerChain, writer, phase, served>>
    /\ UNCHANGED <<trieVars, calls, auxVars>>

\* Router.HandleHTTP, no tree for the method or no route: HTTPNotFound, return
HandleHTTPNotFound ==
    /\ phase = "serving"
    /\ Top.f = "HandleHTTP"
    /\ Top.i = 0
    /\ ~lookup(router, ctx).ok
    /\ LET cw == HTTPNotFound([c |-> ctx, w |-> writer])
           r == returnTo(Pop(stack), cw.c)
       IN  stack' = r.st /\ ctx' = r.c /\ writer' = cw.w
    /\ log' = log \o <<Event("notfound", Top.lvl, Top.k, <<>>),
                       Event("exit", Top.lvl, Top.k, <<>>)>>
    /\ UNCHANGED <<router, group, handlerChain, phase, served>>
    /\ UNCHANGED <<trieVars, calls, auxVars>>

\* Router.HandleHTTP, route found: the parameters are bound with SetParam and
\* the loop over matchedNode.Handlers starts
HandleHTTPFound ==
    /\ phase = "serving"
    /\ Top.f = "HandleHTTP"
    /\ Top.i = 0
    /\ lookup(router, ctx).ok
    /\ ctx' = bindParams(ctx, lookup(router, ctx).params)
    /\ stack' = SetTop(stack, [Top EXCEPT !.hs = lookup(router, ctx).hs, !.i = 1])
    /\ log' = Append(log, Event("matched", Top.lvl, Top.k, lookup(router, ctx).params))
    /\ UNCHANGED <<router, group, handlerChain, writer, phase, served>>
    /\ UNCHANGED <<trieVars, calls, auxVars>>

\* HandleHTTP's range loop calls the next handler of the matched chain
RouteCallHandler ==
    /\ phase = "serving"
    /\ Top.f = "HandleHTTP"
    /\ Top.i >= 1
    /\ Top.i <= Len(Top.hs)
    /\ stack' = Append(stack, HandlerFrame("route", Top.i, Top.hs[Top.i]))
    /\ log' = Append(log, Event("enter", "route", Top.i, <<>>))
    /\ UNCHANGED <<router, group, handlerChain, ctx, writer, phase, served>>
    /\ UNCHANGED <<trieVars, calls, auxVars>>

\* HandleHTTP returns after the last handler of the matched chain
HandleHTTPReturn ==
    /\ phase = "serving"
    /\ Top.f = "HandleHTTP"
    /\ Top.i > Len(Top.hs)
    /\ LET r == returnTo(Pop(stack), ctx) IN stack' = r.st /\ ctx' = r.c
    /\ log' = Append(log, Event("exit", Top.lvl, Top.k, <<>>))
    /\ UNCHANGED <<router, group, handlerChain, writer, phase, served>>
    /\ UNCHANGED <<trieVars, calls, auxVars>>

\* core.ServeHTTP after the top-level Next() returned: contextPool.Put
ServeHTTPPut ==
    /\ phase = "serving"
    /\ Top.f = "ServeHTTP"
    /\ stack' = <<>>
    /\ phase' = "idle"
    /\ UNCHANGED <<router, group, handlerChain, ctx, writer, log, served>>
    /\ UNCHANGED <<trieVars, calls, auxVars>>

DispatchNext ==
    \/ \E h \in ChainHandlers : addHandler(h)
    \/ \E mw \in GroupMiddleware : GroupUse(mw)
    \/ \E p \in GroupPaths, h \in RouteHandlers : GroupGET(p, h)
    \/ \E m \in Methods, p \in DispatchPaths : ServeHTTP(m, p)
    \/ NextCallHandler
    \/ NextReturn
    \/ HandlerNext
    \/ HandlerAbort
    \/ HandlerGetPathParam
    \/ HandlerReturn
    \/ HandleHTTPNotFound
    \/ HandleHTTPFound
    \/ RouteCallHandler
    \/ HandleHTTPReturn
    \/ ServeHTTPPut

SpecDispatch == Init /\ [][DispatchNext]_vars

----------------------------------------------------------------------------
(* Claims about dispatch                                                   *)

isEv(e, ev, lvl, k) == e.ev = ev /\ e.lvl = lvl /\ e.k = k

LogIdx == 1..Len(log)

\* the chain handler k called Next() before position p of the log
calledNextBefore(k, p) == \E q \in 1..(p - 1) : isEv(log[q], "next", "chain", k)

\* after position p, Next() returned into chain handler j and j returned
unwoundAfter(j, p) ==
    \E q \in LogIdx : /\ q > p
                      /\ isEv(log[q], "back", "chain", j)
                      /\ \E r \in LogIdx : r > q /\ isEv(log[r], "exit", "chain", j)

\* after position p, Next() returns into j2 before it returns into j1
backBefore(j2, j1, p) ==
    \E q \in LogIdx : /\ q > p
                      /\ isEv(log[q], "back", "chain", j2)
                      /\ \A r \in (p + 1)..q : ~isEv(log[r], "back", "chain", j1)

\* the chain's result for the request: the matched chain and parameters
matchOfRequest == lookup(router, ctx)

\* C4: parameters reach the handler.  When HandleHTTP resolves a route with
\* the parameter x, a handler of the matched chain that calls
\* GetPathParam("x") reads the segment text FindChild bound to x.
C4_ParamsReachHandler ==
    \A p \in LogIdx :
        (log[p].ev = "read" /\ ParamKey \in DOMAIN matchOfRequest.params)
            => log[p].val = matchOfRequest.params[ParamKey]

\* C5: dispatch ordering under Abort.  If handler k of the chain calls
\* Abort() before (or instead of) calling Next(), no handler k+1..N is ever
\* entered, and when the request is over every earlier handler that had
\* called Next() has run its post-Next() code and returned, the later
\* callers first.
C5_AbortStopsChain ==
    \A p \in LogIdx :
        (log[p].ev = "abort" /\ log[p].lvl = "chain" /\ ~calledNextBefore(log[p].k, p))
            => /\ \A q \in LogIdx :
                     ~(log[q].ev = "enter" /\ log[q].lvl = "chain" /\ log[q].k > log[p].k)
               /\ phase = "idle" =>
                     \A j \in 1..(log[p].k - 1) :
                         calledNextBefore(j, p)
                             => /\ unwoundAfter(j, p)
                                /\ \A j2 \in (j + 1)..(log[p].k - 1) :
                                      calledNextBefore(j2, p) => backBefore(j2, j, p)

\* C5 witness: a finished request whose chain is [calls Next, calls Next,
\* Abort then Next]: the third handler aborted and both callers unwound.
C5_Witness ==
    /\ phase = "idle"
    /\ Len(ctx.handlers) = 3
    /\ ctx.handlers[3] = Fn(<<"Abort", "Next">>)
    /\ \E p \in LogIdx :
          /\ isEv(log[p], "abort", "chain", 3)
          /\ calledNextBefore(1, p) /\ calledNextBefore(2, p)
          /\ unwoundAfter(1, p) /\ backBefore(2, 1, p)

\* C6: Abort inside the route's own chain.  When a handler of the matched
\* chain calls Abort(), no later handler of that chain is entered.
C6_AbortInRouteChain ==
    \A p \in LogIdx :
        (log[p].ev = "abort" /\ log[p].lvl = "route")
            => \A q \in LogIdx :
                  ~(q > p /\ log[q].ev = "enter" /\ log[q].lvl = "route"
                          /\ log[q].k > log[p].k)

callsNext(h) == \E i \in 1..Len(h.prog) : h.prog[i] = "Next"

\* C7: group middleware wraps the route handler.  For a matched chain
\* [M, handler] whose M calls c.Next(), handler is entered after M called
\* Next() and before that call returned.
C7_GroupMiddlewareWraps ==
    \A q \in LogIdx :
        ( /\ isEv(log[q], "enter", "route", 2)
          /\ Len(matchOfRequest.hs) = 2
          /\ callsNext(matchOfRequest.hs[1]) )
            => \E p \in 1..(q - 1) :
                  /\ isEv(log[p], "next", "route", 1)
                  /\ \A r \in p..q : ~isEv(log[r], "back", "route", 1)

chainEnters == SelectSeq(log, LAMBDA e : e.ev = "enter" /\ e.lvl = "chain")

isChainFrame(fr) == fr.lvl = "chain" /\ fr.f \in {"handler", "HandleHTTP"}

\* C8: order and exactly-once.  The handlers of the chain are entered in
\* registration order, each at most once; a request in which nothing
\* aborted has entered all of them when it is over, whichever handlers
\* re-entered Next(); and a chain handler is only ever active as the callee
\* of a Next() loop.
C8_ExactlyOnceInOrder ==
    /\ \A i \in 1..Len(chainEnters) : chainEnters[i].k = i
    /\ (phase = "idle" /\ ~ctx.aborted) => Len(chainEnters) = Len(ctx.handlers)
    /\ \A b \in 1..Len(stack) :
          isChainFrame(stack[b]) => (b > 1 /\ stack[b - 1].f = "Next")

\* C8 witness: a finished, unaborted request over three handlers of which
\* one calls Next() twice and one once.
C8_Witness ==
    /\ phase = "idle"
    /\ ~ctx.aborted
    /\ Len(ctx.handlers) = 3
    /\ ctx.handlers[1] = Fn(<<"Next", "Next">>)
    /\ ctx.handlers[2] = Fn(<<"Next">>)
    /\ Len(chainEnters) = 3

routerExited(k) == \E p \in LogIdx : isEv(log[p], "exit", "chain", k)

\* C9: not-found outcome.  Once HandleHTTP (handler k of the chain) has
\* returned for a request whose method has no tree or whose path has no
\* route, the status is 404, the body "404 Not Found" was written as plain
\* text and Abort is set; no handler after the router is ever entered, and
\* when the request is over every handler ahead of the router that had
\* called Next() has run its post-Next() code and returned.
C9_NotFound ==
    \A k \in 1..Len(ctx.handlers) :
        ( /\ phase # "setup"
          /\ ctx.handlers[k].kind = "router"
          /\ routerExited(k)
          /\ ~matchOfRequest.ok )
            => /\ ctx.statusCode = StatusNotFound
               /\ ctx.aborted
               /\ \E i \in 1..Len(writer.body) : writer.body[i] = Raw("404 Not Found")
               /\ "Content-Type" \in DOMAIN writer.header
               /\ writer.header["Content-Type"] = <<"text/plain; charset=utf-8">>
               /\ \A q \in LogIdx :
                     ~(log[q].ev = "enter" /\ log[q].lvl = "chain" /\ log[q].k > k)
               /\ phase = "idle" =>
                     \A j \in 1..(k - 1) :
                         callsNext(ctx.handlers[j]) => unwoundAfter(j, 1)

\* C9 witness: a finished request for an unregistered path through the chain
\* [calls Next, Router, handler]: the handler after the router was skipped.
C9_Witness ==
    /\ phase = "idle"
    /\ Len(ctx.handlers) = 3
    /\ ctx.handlers[1] = Fn(<<"Next">>)
    /\ ctx.handlers[2] = RouterHandler
    /\ ctx.method = "GET"
    /\ "GET" \in DOMAIN router
    /\ ~matchOfRequest.ok
    /\ routerExited(2)
    /\ Len(chainEnters) = 2

----------------------------------------------------------------------------
(* Response specification: the response calls one goroutine makes on the   *)
(* Context of a request, and the Reset that starts the next request        *)

MaxCalls == 3       \* response calls per request

StatusCodes == { StatusOK, StatusNotFound }

\* the Context and the writer after a response call
respond(cw) ==
    /\ ctx' = cw.c
    /\ writer' = cw.w
    /\ calls' = calls + 1
    /\ UNCHANGED <<router, group, handlerChain, stack, log, phase, served>>
    /\ UNCHANGED <<trieVars, auxVars>>

CW == [c |-> ctx, w |-> writer]

CallSetStatus(code) ==
    /\ calls < MaxCalls
    /\ respond(SetStatus(CW, code))

CallSetHeader(values) ==
    /\ calls < MaxCalls
    /\ respond(SetHeader(CW, "X-Middleware", values))

CallWrite ==
    /\ calls < MaxCalls
    /\ respond(Write(CW, Raw("bytes")))

CallSendString(code) ==
    /\ calls < MaxCalls
    /\ respond(SendString(CW, code, "text"))

CallSendJson(code, marshalOk) ==
    /\ calls < MaxCalls
    /\ respond(SendJson(CW, code, Json("data"), marshalOk))

CallSendHtml(code) ==
    /\ calls < MaxCalls
    /\ respond(SendHtml(CW, code, "html"))

CallSendXml(code, marshalOk) ==
    /\ calls < MaxCalls
    /\ respond(SendXml(CW, code, Xml("data"), marshalOk))

CallData(code) ==
    /\ calls < MaxCalls
    /\ respond(Data(CW, code, "application/octet-stream", Raw("data")))

CallFail(code) ==
    /\ calls < MaxCalls
    /\ respond(Fail(CW, code, "message"))

CallFailWithError(code) ==
    /\ calls < MaxCalls
    /\ respond(FailWithError(CW, code, "err.Error()"))

\* the Context is reset for the next request, which has its own writer
CallReset ==
    /\ calls > 0
    /\ ctx' = Reset(ctx, "GET", <<Slash>>, EmptyMap)
    /\ writer' = NewWriter
    /\ calls' = 0
    /\ UNCHANGED <<router, group, handlerChain, stack, log, phase, served>>
    /\ UNCHANGED <<trieVars, auxVars>>

WriteNext ==
    \/ \E code \in StatusCodes : CallSetStatus(code)
    \/ \E values \in { <<>>, <<"admin">> } : CallSetHeader(values)
    \/ CallWrite
    \/ \E code \in StatusCodes : CallSendString(code)
    \/ \E code \in StatusCodes, ok \in BOOLEAN : CallSendJson(code, ok)
    \/ \E code \in StatusCodes : CallSendHtml(code)
    \/ \E code \in StatusCodes, ok \in BOOLEAN : CallSendXml(code, ok)
    \/ \E code \in StatusCodes : CallData(code)
    \/ \E code \in StatusCodes : CallFail(code)
    \/ \E code \in StatusCodes : CallFailWithError(code)
    \/ CallReset

SpecWrite == Init /\ [][WriteNext]_vars

\* a step of Reset: the only step that may clear written
isReset == ctx' = Reset(ctx, ctx'.method, ctx'.path, ctx'.query) /\ writer' = NewWriter

writeOnceState ==
    /\ Len(writer.codes) <= 1
    /\ ctx.written <=> (Len(writer.codes) = 1)
    /\ writer.body # <<>> => Len(writer.codes) = 1

writeOnceStep ==
    /\ (~ctx.written /\ ctx'.written)
           => (writer'.codes = <<ctx'.statusCode>> /\ writer.body = <<>>
               /\ writer'.body # <<>>)
    /\ (ctx.written /\ ctx'.written) => writer'.codes = writer.codes
    /\ ctx.written => (ctx'.written \/ isReset)

\* C10: write-once response.  Over any sequence of response calls of one
\* request the writer receives at most one status line, it receives it
\* together with the first body bytes and with the status the Context holds
\* at that moment, later status changes never reach the writer, and written,
\* once true, stays true until Reset.
C10_WriteOnce == []writeOnceState /\ [][writeOnceStep]_vars

\* C10 witness: the status was changed after the first write, and a second
\* body write went out without a second status line.
C10_Witness ==
    /\ ctx.written
    /\ writer.codes = <<StatusOK>>
    /\ ctx.statusCode = StatusNotFound
    /\ Len(writer.body) = 2

----------------------------------------------------------------------------
(* Pool specification: ServeHTTP calls on their own goroutines share the   *)
(* context pool; a handler may start a goroutine that writes through the   *)
(* Context it captured.  Write is three steps here: the read of c.written, *)
(* WriteHeader with the assignment of c.written, and writer.Write.         *)

\* the response of a ServeHTTP call that returned is complete
finished(r) == reqs[r].pc = "done"

\* the Context k and the writer its field c.writer points to
pairOf(k) == [c |-> ctxs[k].c, w |-> writers[ctxs[k].w]]

\* what is written to a complete response is not part of it
commit(k, cw) ==
    /\ ctxs' = [ctxs EXCEPT ![k].c = cw.c]
    /\ writers' = IF finished(ctxs[k].w) THEN writers
                  ELSE [writers EXCEPT ![ctxs[k].w] = cw.w]

\* SendString up to its call of Write
sendBegin(cw, code) ==
    SetHeader(SetStatus(cw, code), "Content-Type", <<"text/plain; charset=utf-8">>)

\* Write: c.writer.WriteHeader(c.statusCode); c.written = true
writeFlush(cw) ==
    [cw EXCEPT !.w.codes = Append(@, cw.c.statusCode), !.c.written = TRUE]

\* Write: return c.writer.Write(bytes)
writeBody(cw, bytes) == [cw EXCEPT !.w.body = Append(@, bytes)]

\* Write: if !c.written
afterCheck(g, written) ==
    [g EXCEPT !.saw = written, !.pc = IF written THEN "body" ELSE "flush"]

\* variant of poolTake with a fault: Get hands out a Context and leaves it in the pool
poolTake_keep(p, k) == p

\* sync.Pool.Get removes what it returns
poolTake(p, k) == p \ {k}

\* contextPool.Get(): a pooled Context, or one made by New (Get may ignore
\* the pool)
PoolGet(r, k) ==
    /\ reqs[r].pc = "new"
    /\ \/ /\ k \in pool
          /\ pool' = poolTake(pool, k)
          /\ ctxs' = ctxs
       \/ /\ ~ctxs[k].made
          /\ \A j \in Ctxs : j < k => ctxs[j].made
          /\ ctxs' = [ctxs EXCEPT ![k].made = TRUE]
          /\ pool' = pool
    /\ reqs' = [reqs EXCEPT ![r] = Goroutine("got", k)]
    /\ UNCHANGED <<writers, tasks>>
    /\ UNCHANGED <<trieVars, dispatchVars, calls, mergeVars, groupVars, storeVars, shareVars, lateVars>>

\* ctx.Reset(writer, request); ctx.SetHandles(chain); ctx.Next() up to the
\* call of the handler
PoolReset(r) ==
    /\ reqs[r].pc = "got"
    /\ ctxs' = [ctxs EXCEPT
                  ![reqs[r].ctx].c =
                      nextEntry(SetHandles(Reset(@, "GET", <<Slash>>, EmptyMap),
                                           <<Fn(<<>>)>>)),
                  ![reqs[r].ctx].w = r]
    /\ reqs' = [reqs EXCEPT ![r].pc = "run"]
    /\ UNCHANGED <<pool, writers, tasks>>
    /\ UNCHANGED <<trieVars, dispatchVars, calls, mergeVars, groupVars, storeVars, shareVars, lateVars>>

\* the handler starts a goroutine that captured c: go func() { c.SendString(...) }()
HandlerGo(r) ==
    /\ reqs[r].pc = "run"
    /\ tasks[r].pc = "none"
    /\ tasks' = [tasks EXCEPT ![r] = Goroutine("begin", reqs[r].ctx)]
    /\ UNCHANGED <<pool, ctxs, writers, reqs>>
    /\ UNCHANGED <<trieVars, dispatchVars, calls, mergeVars, groupVars, storeVars, shareVars, lateVars>>

\* the handler's own c.SendString(200, ...), step by step
OwnSetStatus(r) ==
    /\ reqs[r].pc = "run"
    /\ commit(reqs[r].ctx, sendBegin(pairOf(reqs[r].ctx), StatusOK))
    /\ reqs' = [reqs EXCEPT ![r].pc = "check"]
    /\ UNCHANGED <<pool, tasks>>
    /\ UNCHANGED <<trieVars, dispatchVars, calls, mergeVars, groupVars, storeVars, shareVars, lateVars>>

OwnCheck(r) ==
    /\ reqs[r].pc = "check"
    /\ reqs' = [reqs EXCEPT ![r] = afterCheck(@, ctxs[reqs[r].ctx].c.written)]
    /\ UNCHANGED <<pool, ctxs, writers, tasks>>
    /\ UNCHANGED <<trieVars, dispatchVars, calls, mergeVars, groupVars, storeVars, shareVars, lateVars>>

OwnFlush(r) ==
    /\ reqs[r].pc = "flush"
    /\ commit(reqs[r].ctx, writeFlush(pairOf(reqs[r].ctx)))
    /\ reqs' = [reqs EXCEPT ![r].pc = "body"]
    /\ UNCHANGED <<pool, tasks>>
    /\ UNCHANGED <<trieVars, dispatchVars, calls, mergeVars, groupVars, storeVars, shareVars, lateVars>>

OwnBody(r) ==
    /\ reqs[r].pc = "body"
    /\ commit(reqs[r].ctx, writeBody(pairOf(reqs[r].ctx), Raw(r)))
    /\ reqs' = [reqs EXCEPT ![r].pc = "sent"]
    /\ UNCHANGED <<pool, tasks>>
    /\ UNCHANGED <<trieVars, dispatchVars, calls, mergeVars, groupVars, storeVars, shareVars, lateVars>>

\* the handler calls c.Abort() and writes nothing
OwnAbort(r) ==
    /\ reqs[r].pc = "run"
    /\ ctxs' = [ctxs EXCEPT ![reqs[r].ctx].c.aborted = TRUE]
    /\ reqs' = [reqs EXCEPT ![r].pc = "sent"]
    /\ UNCHANGED <<pool, writers, tasks>>
    /\ UNCHANGED <<trieVars, dispatchVars, calls, mergeVars, groupVars, storeVars, shareVars, lateVars>>

\* the goroutine the handler started: c.SendString(200, ...), step by step
SubSetStatus(r) ==
    /\ tasks[r].pc = "begin"
    /\ commit(tasks[r].ctx, sendBegin(pairOf(tasks[r].ctx), StatusOK))
    /\ tasks' = [tasks EXCEPT ![r].pc = "check"]
    /\ UNCHANGED <<pool, reqs>>
    /\ UNCHANGED <<trieVars, dispatchVars, calls, mergeVars, groupVars, storeVars, shareVars, lateVars>>

SubCheck(r) ==
    /\ tasks[r].pc = "check"
    /\ tasks' = [tasks EXCEPT ![r] = afterCheck(@, ctxs[tasks[r].ctx].c.written)]
    /\ UNCHANGED <<pool, ctxs, writers, reqs>>
    /\ UNCHANGED <<trieVars, dispatchVars, calls, mergeVars, groupVars, storeVars, shareVars, lateVars>>

SubFlush(r) ==
    /\ tasks[r].pc = "flush"
    /\ commit(tasks[r].ctx, writeFlush(pairOf(tasks[r].ctx)))
    /\ tasks' = [tasks EXCEPT ![r].pc = "body"]
    /\ UNCHANGED <<pool, reqs>>
    /\ UNCHANGED <<trieVars, dispatchVars, calls, mergeVars, groupVars, storeVars, shareVars, lateVars>>

SubBody(r) ==
    /\ tasks[r].pc = "body"
    /\ commit(tasks[r].ctx, writeBody(pairOf(tasks[r].ctx), Raw(r)))
    /\ tasks' = [tasks EXCEPT ![r].pc = "sent"]
    /\ UNCHANGED <<pool, reqs>>
    /\ UNCHANGED <<trieVars, dispatchVars, calls, mergeVars, groupVars, storeVars, shareVars, lateVars>>

\* the handler returned, Next() returned: s.contextPool.Put(ctx)
PoolPut(r) ==
    /\ reqs[r].pc = "sent"
    /\ pool' = pool \cup {reqs[r].ctx}
    /\ reqs' = [reqs EXCEPT ![r].pc = "done"]
    /\ UNCHANGED <<ctxs, writers, tasks>>
    /\ UNCHANGED <<trieVars, dispatchVars, calls, mergeVars, groupVars, storeVars, shareVars, lateVars>>

PoolNext ==
    \/ \E r \in Reqs, k \in Ctxs : PoolGet(r, k)
    \/ \E r \in Reqs : PoolReset(r)
    \/ \E r \in Reqs : HandlerGo(r)
    \/ \E r \in Reqs : OwnSetStatus(r)
    \/ \E r \in Reqs : OwnCheck(r)
    \/ \E r \in Reqs : OwnFlush(r)
    \/ \E r \in Reqs : OwnBody(r)
    \/ \E r \in Reqs : OwnAbort(r)
    \/ \E r \in Reqs : SubSetStatus(r)
    \/ \E r \in Reqs : SubCheck(r)
    \/ \E r \in Reqs : SubFlush(r)
    \/ \E r \in Reqs : SubBody(r)
    \/ \E r \in Reqs : PoolPut(r)

SpecPool == Init /\ [][PoolNext]_vars

----------------------------------------------------------------------------
(* Claims about concurrent writers and the pool                            *)

\* a goroutine is inside Write: it has read c.written and has not yet
\* returned from writer.Write
insideWrite(g) == g.pc \in {"flush", "body"}

writersInside(k) ==
    { <<r, who>> \in Reqs \X {"own", "sub"} :
        LET g == IF who = "own" THEN reqs[r] ELSE tasks[r]
        IN  g.ctx = k /\ insideWrite(g) }

\* C11: serialized concurrent writes.  When the handler and a goroutine it
\* started both write through one Context, at most one of them is between
\* Write's read of c.written and the end of its writer.Write at any time,
\* and the status line reaches a response writer at most once.
C11_SerializedWrites ==
    /\ \A k \in Ctxs : Cardinality(writersInside(k)) <= 1
    /\ \A r \in Reqs : Len(writers[r].codes) <= 1

\* C12: late writes are contained.  Whatever a goroutine started by the
\* handler of one request writes after that handler returned, the body of
\* the response of a request holds only chunks written for that request.
C12_LateWritesContained ==
    \A r \in Reqs :
        \A i \in 1..Len(writers[r].body) : writers[r].body[i].text = r

\* ServeHTTP call r holds a Context: after Get, before Put
inFlight(r) == reqs[r].pc \in {"got", "run", "check", "flush", "body", "sent"}

----------------------------------------------------------------------------
(* Reuse specification: one pooled Context is used by a request, on one    *)
(* goroutine, and then reset for the next request                          *)

\* Context.Set
Set(c, key, value) == [c EXCEPT !.store = MapPut(@, key, value)]

\* Context.Error
Error(c, err) == IF err = "nil" THEN c ELSE [c EXCEPT !.errors = Append(@, err)]

\* c.Params = append(c.Params, Param{Key: key, Value: value})
appendParam(c, key, value) ==
    [c EXCEPT !.Params = Append(@, [Key |-> key, Value |-> value])]

\* Context.SetParams
RECURSIVE SetParams(_, _)
SetParams(c, params) ==
    IF params = <<>> THEN c
    ELSE SetParams(SetParam(c, Head(params).Key, Head(params).Value), Tail(params))

\* a call that changes the Context only
use(c) ==
    /\ calls < MaxCalls
    /\ ctx' = c
    /\ calls' = calls + 1
    /\ UNCHANGED <<router, group, handlerChain, writer, stack, log, phase, served>>
    /\ UNCHANGED <<trieVars, auxVars>>

UseSetParam(key, value) ==
    /\ calls < MaxCalls
    /\ use(SetParam(ctx, key, value))

UseSetParams(params) ==
    /\ calls < MaxCalls
    /\ use(SetParams(ctx, params))

UseAppendParam(key, value) ==
    /\ calls < MaxCalls
    /\ use(appendParam(ctx, key, value))

UseSet(key, value) ==
    /\ calls < MaxCalls
    /\ use(Set(ctx, key, value))

UseError(err) ==
    /\ calls < MaxCalls
    /\ use(Error(ctx, err))

UseAbort ==
    /\ calls < MaxCalls
    /\ use(Abort(CW).c)

\* c.Next() on a Context whose chain has run to its end
UseNext ==
    /\ calls < MaxCalls
    /\ ctx.index < Len(ctx.handlers)
    /\ use(nextEntry(ctx))

RequestMethods == { "GET", "POST" }
RequestPaths == { <<Slash>>, <<Slash, "a">> }
RequestQueries == { EmptyMap, MapPut(EmptyMap, "q", <<"1">>) }

\* ServeHTTP takes the Context from the pool for the request (method, path,
\* query), whose writer is new: ctx.Reset(writer, request)
PooledReset(method, path, query) ==
    /\ calls > 0
    /\ ctx' = Reset(ctx, method, path, query)
    /\ writer' = NewWriter
    /\ calls' = 0
    /\ UNCHANGED <<router, group, handlerChain, stack, log, phase, served>>
    /\ UNCHANGED <<trieVars, auxVars>>

ReuseNext ==
    \/ \E v \in {"1", "2"} : UseSetParam("id", v)
    \/ \E v \in {"1", "2"} :
          UseSetParams(<<[Key |-> "id", Value |-> v], [Key |-> "name", Value |-> v]>>)
    \/ \E v \in {"1", "2"} : UseAppendParam("id", v)
    \/ \E v \in {"u"} : UseSet("user", v)
    \/ \E err \in {"nil", "failed"} : UseError(err)
    \/ UseAbort
    \/ UseNext
    \/ \E values \in { <<>>, <<"admin">> } : CallSetHeader(values)
    \/ \E code \in StatusCodes : CallSendString(code)
    \/ \E m \in RequestMethods, p \in RequestPaths, q \in RequestQueries :
          PooledReset(m, p, q)

SpecReuse == Init /\ [][ReuseNext]_vars

\* the Context as Reset should leave it for the request (method, path, query)
cleanFor(c, method, path, query) ==
    /\ c.params = EmptyMap
    /\ c.Params = <<>>
    /\ c.headers = EmptyMap
    /\ c.store = EmptyMap
    /\ c.errors = <<>>
    /\ c.index = -1
    /\ c.aborted = FALSE
    /\ c.written = FALSE
    /\ c.statusCode = 0
    /\ c.method = method
    /\ c.path = path
    /\ c.query = query

\* C13: pooling safety.  After Reset(w, r) on a Context that a request has
\* used, nothing of that request is left: the params map, the Params list,
\* the header map, the store and the error list are empty, the cursor is
\* -1, aborted and written are false, the status code is 0, and method,
\* path and query are those of r.
C13_PoolingSafety ==
    [][\A m \in RequestMethods, p \in RequestPaths, q \in RequestQueries :
          PooledReset(m, p, q) => cleanFor(ctx', m, p, q)]_vars

----------------------------------------------------------------------------
(* The Router with MergeRouter (the file that defines RouteGroup): its own *)
(* Insert and FindChild look a child up through the first-byte index       *)

\* maxParams + r.maxParams of calculateMaxParams, in uint8
RECURSIVE calculateMaxParamsIdx(_, _)
RECURSIVE maxOverChildren(_, _, _, _)
calculateMaxParamsIdx(t, n) ==
    LET own == IF t[n].nType = param \/ t[n].nType = catchAll THEN 1 ELSE 0
    IN  (maxOverChildren(t, t[n].children, 1, own) + t[n].maxParams) % 256

maxOverChildren(t, cs, i, maxParams) ==
    IF i > Len(cs) THEN maxParams
    ELSE maxOverChildren(t, cs, i + 1, Max(calculateMaxParamsIdx(t, cs[i]), maxParams))

\* the child of n whose path is part, looked for only when the first byte
\* of part is in n.indices
childByIndex(t, n, part) ==
    IF Contains(t[n].indices, part[1]) THEN childByPath(t, n, part, 1) ELSE NilNode

InsertPartIdx(t, current, part) ==
    IF part = <<>> THEN [t |-> t, cur |-> current]
    ELSE
    LET existing == childByIndex(t, current, part)
        id == Len(t) + 1
        kind == IF part[1] = Colon THEN param
                ELSE IF part[1] = Star THEN catchAll ELSE static
        child == [path |-> part, indices |-> <<>>, children |-> <<>>,
                  Handlers |-> NilChain,
                  priority |-> t[current].priority + 1,
                  nType |-> kind, maxParams |-> 0,
                  wildChild |-> (kind = catchAll),
                  paramName |-> IF kind = param THEN Tail(part) ELSE <<>>]
        linked == IF existing # NilNode THEN t
                  ELSE [Append(t, child) EXCEPT
                          ![current].children = Append(@, id),
                          ![current].indices = Append(@, part[1])]
        calc == calculateMaxParamsIdx(linked, current)
    IN  [t |-> IF linked[current].maxParams < calc
               THEN [linked EXCEPT ![current].maxParams = calc] ELSE linked,
         cur |-> IF existing # NilNode THEN existing ELSE id]

RECURSIVE InsertPartsIdx(_, _, _, _)
InsertPartsIdx(t, current, parts, i) ==
    IF i > Len(parts) THEN [t |-> t, cur |-> current]
    ELSE LET s == InsertPartIdx(t, current, parts[i])
         IN  InsertPartsIdx(s.t, s.cur, parts, i + 1)

InsertIdx(t, path, handlers) ==
    IF Len(path) = 0 THEN t
    ELSE LET s == InsertPartsIdx(t, 1, splitPath(path), 1)
         IN  [s.t EXCEPT ![s.cur].Handlers = handlers]

\* FindChild's choice for one segment: the child whose path is the segment
\* (through indices), else the first param child, else the first catch-all
\* child; a catch-all child binds the one segment under its empty paramName
matchStepIdx(t, current, part) ==
    LET byPath == childByIndex(t, current, part)
        byParam == childByType(t, current, param, 1)
        byCatch == childByType(t, current, catchAll, 1)
    IN  IF byPath # NilNode
        THEN [child |-> byPath, via |-> "path", key |-> <<>>, val |-> <<>>,
              last |-> FALSE]
        ELSE IF byParam # NilNode
        THEN [child |-> byParam, via |-> "param", key |-> t[byParam].paramName,
              val |-> part, last |-> FALSE]
        ELSE IF byCatch # NilNode
        THEN [child |-> byCatch, via |-> "catchAll", key |-> t[byCatch].paramName,
              val |-> part, last |-> FALSE]
        ELSE NoStep

RECURSIVE findLoopIdx(_, _, _, _, _)
findLoopIdx(t, parts, idx, current, params) ==
    IF idx > Len(parts) THEN [node |-> current, params |-> params]
    ELSE IF parts[idx] = <<>> THEN findLoopIdx(t, parts, idx + 1, current, params)
    ELSE IF Len(t[current].children) = 0 THEN [node |-> NilNode, params |-> EmptyMap]
    ELSE LET m == matchStepIdx(t, current, parts[idx])
         IN  IF m.child = NilNode THEN [node |-> NilNode, params |-> EmptyMap]
             ELSE findLoopIdx(t, parts, idx + 1, m.child,
                              IF m.via = "path" THEN params
                              ELSE MapPut(params, m.key, m.val))

FindChildIdx(t, path) ==
    IF path = <<>> THEN [node |-> NilNode, params |-> EmptyMap]
    ELSE findLoopIdx(t, splitPath(path), 1, 1, EmptyMap)

\* Router.addRoute of that file: getRoute, then Insert
addRouteIdx(r, path, method, handlers) ==
    [m \in (DOMAIN r) \cup {method} |->
        IF m = method THEN InsertIdx(getRoute(r, method), path, handlers) ELSE r[m]]

\* what HandleHTTP of that file finds for (method, path)
lookupIdx(r, method, path) ==
    IF method \notin DOMAIN r
    THEN [ok |-> FALSE, hs |-> NilChain, params |-> EmptyMap]
    ELSE LET m == FindChildIdx(r[method], path) IN
         IF m.node = NilNode \/ r[method][m.node].Handlers = NilChain
         THEN [ok |-> FALSE, hs |-> NilChain, params |-> EmptyMap]
         ELSE [ok |-> TRUE, hs |-> r[method][m.node].Handlers, params |-> m.params]

----------------------------------------------------------------------------
(* MergeRouter.  A pointer to a node of the other Router's tree is a copy  *)
(* of its subtree here: nothing is registered after the merge, so that the *)
(* two trees share nodes is not observed.                                  *)

RECURSIVE copySubtree(_, _, _)
RECURSIVE copyChildren(_, _, _, _, _)
\* the subtree of node n of tree `other`, appended to tree te: [t, id]
copySubtree(te, other, n) ==
    LET id == Len(te) + 1
    IN  [t |-> copyChildren(Append(te, [other[n] EXCEPT !.children = <<>>]),
                            other, n, 1, id),
         id |-> id]

copyChildren(te, other, n, j, id) ==
    IF j > Len(other[n].children) THEN te
    ELSE LET c == copySubtree(te, other, other[n].children[j])
         IN  copyChildren([c.t EXCEPT ![id].children = Append(@, c.id)],
                          other, n, j + 1, id)

\* existing.children = append(existing.children, otherChild);
\* existing.indices += otherChild.path[0:1]
adoptChild(te, e, other, oc) ==
    LET c == copySubtree(te, other, oc)
    IN  [c.t EXCEPT ![e].children = Append(@, c.id),
                    ![e].indices = Append(@, other[oc].path[1])]

\* variant of mergeHandlers with a fault: the existing chain is kept
mergeHandlers_keep(existingHandlers, otherHandlers) ==
    IF existingHandlers # NilChain THEN existingHandlers ELSE otherHandlers

\* if other.Handlers != nil { existing.Handlers = other.Handlers }
mergeHandlers(existingHandlers, otherHandlers) ==
    IF otherHandlers # NilChain THEN otherHandlers ELSE existingHandlers

RECURSIVE mergeRouteNodes(_, _, _, _)
RECURSIVE mergeChildren(_, _, _, _, _)
\* mergeRouteNodes(existing, other) on node e of tree te and node o of tree other
mergeRouteNodes(te, e, other, o) ==
    mergeChildren([te EXCEPT ![e].Handlers = mergeHandlers(@, other[o].Handlers)],
                  e, other, o, 1)

mergeChildren(te, e, other, o, j) ==
    IF j > Len(other[o].children) THEN te
    ELSE LET oc == other[o].children[j]
             ec == IF Len(other[oc].path) > 0
                   THEN childByIndex(te, e, other[oc].path)
                   ELSE childByPath(te, e, other[oc].path, 1)
         IN  IF ec # NilNode
             THEN mergeChildren(mergeRouteNodes(te, ec, other, oc), e, other, o, j + 1)
             ELSE mergeChildren(adoptChild(te, e, other, oc), e, other, o, j + 1)

\* r.MergeRouter(other)
MergeRouter(r, other) ==
    [m \in (DOMAIN r) \cup (DOMAIN other) |->
        IF m \notin DOMAIN other THEN r[m]
        ELSE IF m \in DOMAIN r THEN mergeRouteNodes(r[m], 1, other[m], 1)
        ELSE other[m]]

----------------------------------------------------------------------------
(* Merge specification: routes are registered on two Routers, one is       *)
(* merged into the other, then the merged Router is queried                *)

MaxMergeRoutes == 2     \* registrations on each of the two Routers

MergeMethods == { "GET", "POST" }
\* the routes that are registered: four under GET, one under POST
MergeRoutes ==
    { <<"GET", <<Slash>>>>, <<"GET", <<Slash, "a">>>>,
      <<"GET", <<Slash, "a", Slash, Colon, "x">>>>, <<"GET", <<Slash, Star, "w">>>>,
      <<"POST", <<Slash, "a">>>> }
MergeReqPaths == { <<Slash>>, <<Slash, "a">>, <<Slash, "a", Slash, "c">>,
                   <<Slash, "c">>, <<Slash, "c", Slash, "c">> }

\* the chain of the n-th registration on Router `on`: one handler
ChainOf(on, n) == <<[on |-> on, n |-> n]>>

Registration(method, path, handlers) ==
    [method |-> method, path |-> path, handlers |-> handlers]

\* other.GET(path, h), other.POST(path, h)
RegisterA(method, path) ==
    /\ ~merged
    /\ Len(regsA) < MaxMergeRoutes
    /\ routerA' = addRouteIdx(routerA, path, method, ChainOf("A", Len(regsA) + 1))
    /\ regsA' = Append(regsA, Registration(method, path, ChainOf("A", Len(regsA) + 1)))
    /\ UNCHANGED <<routerB, regsB, merged, mreq>>
    /\ UNCHANGED <<trieVars, dispatchVars, calls, poolVars, groupVars, storeVars, shareVars, lateVars>>

\* r.GET(path, h), r.POST(path, h)
RegisterB(method, path) ==
    /\ ~merged
    /\ Len(regsB) < MaxMergeRoutes
    /\ routerB' = addRouteIdx(routerB, path, method, ChainOf("B", Len(regsB) + 1))
    /\ regsB' = Append(regsB, Registration(method, path, ChainOf("B", Len(regsB) + 1)))
    /\ UNCHANGED <<routerA, regsA, merged, mreq>>
    /\ UNCHANGED <<trieVars, dispatchVars, calls, poolVars, groupVars, storeVars, shareVars, lateVars>>

\* r.MergeRouter(other)
Merge ==
    /\ ~merged
    /\ routerB' = MergeRouter(routerB, routerA)
    /\ merged' = TRUE
    /\ UNCHANGED <<routerA, regsA, regsB, mreq>>
    /\ UNCHANGED <<trieVars, dispatchVars, calls, poolVars, groupVars, storeVars, shareVars, lateVars>>

\* a lookup on the merged Router, as HandleHTTP makes it
MergeMatch(method, path) ==
    /\ merged
    /\ mreq = NoMatch
    /\ mreq' = [method |-> method, path |-> path] @@ lookupIdx(routerB, method, path)
    /\ UNCHANGED <<routerA, routerB, regsA, regsB, merged>>
    /\ UNCHANGED <<trieVars, dispatchVars, calls, poolVars, groupVars, storeVars, shareVars, lateVars>>

MergeNext ==
    \/ \E mp \in MergeRoutes : RegisterA(mp[1], mp[2])
    \/ \E mp \in MergeRoutes : RegisterB(mp[1], mp[2])
    \/ Merge
    \/ \E m \in MergeMethods, p \in MergeReqPaths : MergeMatch(m, p)

SpecMerge == Init /\ [][MergeNext]_vars

\* a Router on which the registrations were made directly, in order
RECURSIVE registerAll(_, _, _)
registerAll(r, rs, i) ==
    IF i > Len(rs) THEN r
    ELSE registerAll(addRouteIdx(r, rs[i].path, rs[i].method, rs[i].handlers),
                     rs, i + 1)

\* B's routes and then A's routes, registered on one new Router
directRouter == registerAll(EmptyMap, regsB \o regsA, 1)

\* C15: merge semantics.  After B.MergeRouter(A), a lookup on B for any
\* method and path gives what the same lookup gives on a Router on which
\* B's routes and then A's routes were registered directly: found or not,
\* the chain, the parameters.  (So A's chain wins on a node both attached a
\* chain to, and a route only B had keeps B's chain.)
C15_MergeSemantics ==
    (merged /\ mreq # NoMatch) =>
        /\ mreq.ok = lookupIdx(directRouter, mreq.method, mreq.path).ok
        /\ mreq.hs = lookupIdx(directRouter, mreq.method, mreq.path).hs
        /\ mreq.params = lookupIdx(directRouter, mreq.method, mreq.path).params

\* C15 witness: A and B registered the same parameter route, B also one of
\* its own; after the merge the common route resolves to A's chain with
\* the parameter bound.
C15_Witness ==
    /\ merged
    /\ \E i \in 1..Len(regsA), j \in 1..Len(regsB) :
          /\ regsA[i].method = regsB[j].method
          /\ regsA[i].path = regsB[j].path
          /\ regsA[i].path = <<Slash, "a", Slash, Colon, "x">>
          /\ mreq.method = regsA[i].method
    /\ Len(regsB) = 2
    /\ mreq.path = <<Slash, "a", Slash, "c">>
    /\ mreq.ok
    /\ mreq.hs[1].on = "A"
    /\ mreq.params = MapPut(EmptyMap, <<"x">>, <<"c">>)

----------------------------------------------------------------------------
(* More claims about the trie                                              *)

\* the registrations of the path, oldest first
registrationsOf(path) == { i \in 1..Len(regs) : regs[i] = path }

lastOf(S) == CHOOSE i \in S : \A j \in S : j <= i

isLiteralPath(path) == \A i \in 1..Len(splitPath(path)) : isLiteral(splitPath(path)[i])

\* what a lookup of the path on tree t gives: found or not, chain, parameters
matchResult(t, path) ==
    LET r == FindChild(t, path) IN
    IF r.node = NilNode \/ t[r.node].Handlers = NilChain
    THEN [ok |-> FALSE, hs |-> NilChain, params |-> EmptyMap]
    ELSE [ok |-> TRUE, hs |-> t[r.node].Handlers, params |-> r.params]

\* the step registers a path that is registered already
isReRegistration ==
    /\ Len(regs') = Len(regs) + 1
    /\ registrationsOf(regs'[Len(regs')]) # {}

\* C16: last registration wins.  A lookup of a literal path that was
\* registered more than once gives the chain of its last registration; and
\* registering a literal path again changes the result of no request that
\* resolved to another node.
C16_LastRegistrationWins ==
    /\ [](\A path \in RoutePaths :
             ( /\ req.path = path
               /\ isLiteralPath(path)
               /\ Cardinality(registrationsOf(path)) > 1 )
             => /\ found.node # NilNode
                /\ tree[found.node].Handlers = <<lastOf(registrationsOf(path))>>)
    /\ [][(isReRegistration /\ isLiteralPath(regs'[Len(regs')])) =>
             \A q \in ReqPaths :
                 FindChild(tree, q).node # FindChild(tree, regs'[Len(regs')]).node
                     => matchResult(tree', q) = matchResult(tree, q)]_vars

\* C16 witness: "/a" was registered first and third, another route in
\* between, and a lookup of "/a" gave the chain of the third registration.
C16_Witness ==
    /\ Len(regs) = 3
    /\ regs[1] = <<Slash, "a">>
    /\ regs[2] # <<Slash, "a">>
    /\ regs[3] = <<Slash, "a">>
    /\ req.path = <<Slash, "a">>
    /\ found.node # NilNode
    /\ tree[found.node].Handlers = <<3>>

----------------------------------------------------------------------------
(* Trailing-slash specification: the trie specification on paths that      *)
(* differ in a slash at the end                                            *)

SlashRoutePaths == { <<Slash, "a">>, <<Slash, "a", Slash>>,
                     <<Slash, "a", Slash, "a">>, <<Slash, "a", Slash, "a", Slash>> }
SlashReqPaths == SlashRoutePaths \cup { <<Slash, "c">>, <<Slash, "c", Slash>> }

SlashNext ==
    \/ \E p \in SlashRoutePaths : TrieInsert(p)
    \/ \E p \in SlashReqPaths : TrieFind(p)

SpecSlash == Init /\ [][SlashNext]_vars

\* the registrations whose path is the path up to slashes at its ends
registrationsUpToSlash(path) == { i \in 1..Len(regs) : Trim(regs[i]) = Trim(path) }

\* C18: trailing slash is significant.  A request for a path that is not
\* registered, while the path with the slash at the end added or removed
\* is, resolves to nothing; a request for a path that is registered gets
\* the chain last registered for exactly that path.
C18_TrailingSlashSignificant ==
    req # NoReq =>
        /\ (registrationsOf(req.path) = {} /\ registrationsUpToSlash(req.path) # {})
              => found.node = NilNode
        /\ registrationsOf(req.path) # {}
              => /\ found.node # NilNode
                 /\ tree[found.node].Handlers = <<lastOf(registrationsOf(req.path))>>

\* C18 as amended: the slash at the end is not significant.  A request
\* resolves to the chain of the last registration whose path equals the
\* request path up to slashes at the ends.
C18_TrailingSlashIgnored ==
    (req # NoReq /\ registrationsUpToSlash(req.path) # {})
        => /\ found.node # NilNode
           /\ tree[found.node].Handlers = <<lastOf(registrationsUpToSlash(req.path))>>

\* C18 witness: "/a" and then "/a/" were registered, and a request for "/a"
\* got the chain registered for "/a/".
C18_Witness ==
    /\ regs = << <<Slash, "a">>, <<Slash, "a", Slash>> >>
    /\ req.path = <<Slash, "a">>
    /\ found.node # NilNode
    /\ tree[found.node].Handlers = <<2>>

----------------------------------------------------------------------------
(* Route specification: dispatch over routes that leave nodes without a    *)
(* chain on the way to the registered node                                 *)

RouteChainHandlers == { Fn(<<"Next">>), RouterHandler }
RouteGroupPaths == { <<Slash, Colon, "x">>, <<Slash, Star, "w", Slash, "c">>,
                     <<Slash, "c", Slash, "c">> }
RouteGroupHandlers == { Fn(<<>>) }
RouteReqPaths == { <<Slash>>, <<Slash, "a">>, <<Slash, "a", Slash, "c">>,
                   <<Slash, "a", Slash, "c", Slash, "c">>, <<Slash, "c">> }

RouteNext ==
    \/ \E h \in RouteChainHandlers : addHandler(h)
    \/ \E p \in RouteGroupPaths, h \in RouteGroupHandlers : GroupGET(p, h)
    \/ \E m \in Methods, p \in RouteReqPaths : ServeHTTP(m, p)
    \/ NextCallHandler
    \/ NextReturn
    \/ HandlerNext
    \/ HandlerReturn
    \/ HandleHTTPNotFound
    \/ HandleHTTPFound
    \/ RouteCallHandler
    \/ HandleHTTPReturn
    \/ ServeHTTPPut

SpecRoute == Init /\ [][RouteNext]_vars

\* the node the request's segments lead to in the tree of its method
\* (NilNode: no tree, or some segment has no child to go to)
nodeOfRequest ==
    IF ctx.method \notin DOMAIN router \/ ctx.path = <<>> THEN NilNode
    ELSE findLoop(router[ctx.method], splitPath(ctx.path), 1, 1, EmptyMap, <<>>).node

\* the request's segments lead to an existing node that has no chain
atChainlessNode ==
    /\ nodeOfRequest # NilNode
    /\ router[ctx.method][nodeOfRequest].Handlers = NilChain

\* C17: node existence is not route existence.  Once HandleHTTP (handler k
\* of the chain) has returned for a request whose segments lead to an
\* existing node with no attached chain, it has reported not found and
\* answered 404 with the body "404 Not Found", and it has entered no
\* handler of a route.
C17_NodeIsNotRoute ==
    \A k \in 1..Len(ctx.handlers) :
        ( /\ phase # "setup"
          /\ ctx.handlers[k].kind = "router"
          /\ routerExited(k)
          /\ atChainlessNode )
            => /\ \E p \in LogIdx : isEv(log[p], "notfound", "chain", k)
               /\ \A p \in LogIdx : log[p].ev # "matched"
               /\ \A p \in LogIdx : ~(log[p].ev = "enter" /\ log[p].lvl = "route")
               /\ writer.codes = <<StatusNotFound>>
               /\ writer.body = <<Raw("404 Not Found")>>
               /\ ctx.statusCode = StatusNotFound

\* C17 witness: "/a/:x" is registered, and the request for its strict
\* prefix "/a" is over: the node of "a" exists and the answer was 404.
C17_Witness ==
    /\ phase = "idle"
    /\ ctx.path = <<Slash, "a">>
    /\ atChainlessNode
    /\ nodeOfRequest # 1
    /\ \E k \in 1..Len(ctx.handlers) : ctx.handlers[k].kind = "router" /\ routerExited(k)
    /\ writer.codes = <<StatusNotFound>>

----------------------------------------------------------------------------
(* HandleFuncChain as a Go slice: [arr, len, cap] over a backing array of  *)
(* arrays; two slices over one array see each other's writes.              *)

NilSlice == [arr |-> 0, len |-> 0, cap |-> 0]
NoHandler == [kind |-> "nil", id |-> 0]

\* the elements of slice s
elems(h, s) == IF s.len = 0 THEN <<>> ELSE [i \in 1..s.len |-> h[s.arr][i]]

\* make(HandleFuncChain, 0, cap)
makeSlice(h, cap) ==
    [arrays |-> Append(h, [i \in 1..cap |-> NoHandler]),
     s |-> [arr |-> Len(h) + 1, len |-> 0, cap |-> cap]]

\* the capacity append grows to when need elements do not fit in old
growCap(old, need) ==
    LET want == IF need > 2 * old THEN need ELSE 2 * old
    IN  IF want = 5 THEN 6 ELSE IF want = 7 THEN 8 ELSE want

\* append(s, xs...): in place when the capacity allows, else into a new array
appendSlice(h, s, xs) ==
    IF Len(xs) = 0 THEN [arrays |-> h, s |-> s]
    ELSE IF s.len + Len(xs) <= s.cap
    THEN [arrays |-> [h EXCEPT ![s.arr] =
                        [i \in 1..s.cap |->
                            IF i > s.len /\ i <= s.len + Len(xs)
                            THEN xs[i - s.len] ELSE @[i]]],
          s |-> [s EXCEPT !.len = @ + Len(xs)]]
    ELSE LET cap == growCap(s.cap, s.len + Len(xs))
             old == elems(h, s)
         IN  [arrays |-> Append(h, [i \in 1..cap |->
                            IF i <= s.len THEN old[i]
                            ELSE IF i <= s.len + Len(xs) THEN xs[i - s.len]
                            ELSE NoHandler]),
              s |-> [arr |-> Len(h) + 1, len |-> s.len + Len(xs), cap |-> cap]]

----------------------------------------------------------------------------
(* RouteGroup                                                              *)

\* Router.Group
NewGroup(prefix) == [prefix |-> prefix, handlers |-> NilSlice]

\* variant of RouteGroupUse with a fault: the middleware goes to the front of the list
RouteGroupUse_front(h, g, middleware) ==
    LET a == appendSlice(h, NilSlice, middleware \o elems(h, g.handlers))
    IN  [arrays |-> a.arrays, g |-> [g EXCEPT !.handlers = a.s]]

\* RouteGroup.Use
RouteGroupUse(h, g, middleware) ==
    LET a == appendSlice(h, g.handlers, middleware)
    IN  [arrays |-> a.arrays, g |-> [g EXCEPT !.handlers = a.s]]

\* variant of RouteGroupAddRoute with a fault: the handler is appended to the
\* group's own slice
RouteGroupAddRoute_noCopy(h, r, g, method, path, handler) ==
    LET a == appendSlice(h, g.handlers, <<handler>>)
    IN  [arrays |-> a.arrays,
         router |-> addRouteIdx(r, g.prefix \o path, method, a.s)]

\* RouteGroup.addRoute
RouteGroupAddRoute(h, r, g, method, path, handler) ==
    LET m == makeSlice(h, g.handlers.len + 1)
        a1 == appendSlice(m.arrays, m.s, elems(m.arrays, g.handlers))
        a2 == appendSlice(a1.arrays, a1.s, <<handler>>)
    IN  [arrays |-> a2.arrays,
         router |-> addRouteIdx(r, g.prefix \o path, method, a2.s)]

----------------------------------------------------------------------------
(* Group specification: groups are made on one Router, and Use and VERB    *)
(* are called on them in any order                                         *)

MaxGroups == 2      \* RouteGroups made
MaxGroupCalls == 5  \* Use and VERB calls on the groups

GroupPrefixes == { <<Slash, "a">>, <<Slash, "c">> }
GroupRoutePaths == { <<Slash, "c">> }
GroupMethods == { "GET" }

\* the handler value of the next call: each call brings its own function
Middleware == [kind |-> "mw", id |-> Len(groupLog) + 1]
Handler == [kind |-> "handler", id |-> Len(groupLog) + 1]

\* r.Group(prefix)
RouterGroup(prefix) ==
    /\ Len(groups) < MaxGroups
    /\ groups' = Append(groups, NewGroup(prefix))
    /\ UNCHANGED <<arrays, groupLog>>
    /\ UNCHANGED <<trieVars, dispatchVars, calls, poolVars, mergeVars, storeVars, shareVars, lateVars>>

\* groups[g].Use(mw)
UseOn(g) ==
    /\ g <= Len(groups)
    /\ Len(groupLog) < MaxGroupCalls
    /\ LET u == RouteGroupUse(arrays, groups[g], <<Middleware>>)
       IN  /\ arrays' = u.arrays
           /\ groups' = [groups EXCEPT ![g] = u.g]
    /\ groupLog' = Append(groupLog, [op |-> "Use", g |-> g, method |-> "",
                                     path |-> <<>>, h |-> Middleware])
    /\ UNCHANGED <<trieVars, dispatchVars, calls, poolVars, mergeVars, storeVars, shareVars, lateVars>>

\* groups[g].VERB(path, handler)
VerbOn(g, method, path) ==
    /\ g <= Len(groups)
    /\ Len(groupLog) < MaxGroupCalls
    /\ LET a == RouteGroupAddRoute(arrays, router, groups[g], method, path, Handler)
       IN  /\ arrays' = a.arrays
           /\ router' = a.router
    /\ groupLog' = Append(groupLog, [op |-> "VERB", g |-> g, method |-> method,
                                     path |-> groups[g].prefix \o path,
                                     h |-> Handler])
    /\ UNCHANGED <<groups, tree, regs, req, found, walk, calls, poolVars, mergeVars, storeVars, shareVars, lateVars>>
    /\ UNCHANGED <<group, handlerChain, ctx, writer, stack, log, phase, served>>

GroupNext ==
    \/ \E prefix \in GroupPrefixes : RouterGroup(prefix)
    \/ \E g \in 1..MaxGroups : UseOn(g)
    \/ \E g \in 1..MaxGroups, m \in GroupMethods, p \in GroupRoutePaths :
          VerbOn(g, m, p)

SpecGroup == Init /\ [][GroupNext]_vars

----------------------------------------------------------------------------
(* Claims about groups                                                     *)

GroupLogIdx == 1..Len(groupLog)

\* the middleware Use had added to group g before call i, in order
usedBefore(g, i) ==
    LET S == { j \in 1..(i - 1) : groupLog[j].op = "Use" /\ groupLog[j].g = g }
        RECURSIVE inOrder(_)
        inOrder(T) == IF T = {} THEN <<>>
                      ELSE LET j == lastOf(T) IN Append(inOrder(T \ {j}), groupLog[j].h)
    IN  inOrder(S)

\* the chain the Router holds for (method, path); <<>> when there is none
storedChain(method, path) ==
    LET m == lookupIdx(router, method, path)
    IN  IF m.ok THEN elems(arrays, m.hs) ELSE <<>>

\* no later VERB call registered the route of call i again
notOverwritten(i) ==
    \A j \in (i + 1)..Len(groupLog) :
        ~(groupLog[j].op = "VERB" /\ groupLog[j].method = groupLog[i].method
                                  /\ groupLog[j].path = groupLog[i].path)

\* C19: group registration.  Right after VERB(path, h) on a group with
\* prefix P on which Use has so far added M1..Mk, the Router holds for P+path
\* the chain [M1, ..., Mk, h], in that order.
C19_GroupRegistration ==
    (groupLog # <<>> /\ groupLog[Len(groupLog)].op = "VERB") =>
        LET e == groupLog[Len(groupLog)]
        IN  /\ e.path = groups[e.g].prefix \o SubSeq(e.path, Len(groups[e.g].prefix) + 1, Len(e.path))
            /\ lookupIdx(router, e.method, e.path).ok
            /\ storedChain(e.method, e.path) = Append(usedBefore(e.g, Len(groupLog)), e.h)
            /\ elems(arrays, groups[e.g].handlers) = usedBefore(e.g, Len(groupLog))

\* C19 witness: the group "/a" got two middleware and then registered
\* GET "/c": GET /a/c has the chain [M1, M2, handler].
C19_Witness ==
    /\ Len(groupLog) = 3
    /\ groupLog[1].op = "Use" /\ groupLog[2].op = "Use" /\ groupLog[3].op = "VERB"
    /\ groupLog[1].g = groupLog[3].g /\ groupLog[2].g = groupLog[3].g
    /\ groupLog[3].path = <<Slash, "a", Slash, "c">>
    /\ storedChain("GET", <<Slash, "a", Slash, "c">>)
         = <<groupLog[1].h, groupLog[2].h, groupLog[3].h>>

\* C20: Use is not retroactive.  At any time, for every VERB call whose
\* route was not registered again since, the chain the Router holds is the
\* middleware its own group had been given before that call, then the
\* handler: no later Use on that group and no Use on another group shows
\* in it.
C20_UseNotRetroactive ==
    \A i \in GroupLogIdx :
        (groupLog[i].op = "VERB" /\ notOverwritten(i)) =>
            storedChain(groupLog[i].method, groupLog[i].path)
                = Append(usedBefore(groupLog[i].g, i), groupLog[i].h)

\* C20 witness: a route was registered on a group, and after that Use was
\* called on the same group and on another group; the route's chain is
\* still the one of its registration.
C20_Witness ==
    \E i, j, k \in GroupLogIdx :
        /\ i < j /\ i < k
        /\ groupLog[i].op = "VERB" /\ notOverwritten(i)
        /\ groupLog[j].op = "Use" /\ groupLog[j].g = groupLog[i].g
        /\ groupLog[k].op = "Use" /\ groupLog[k].g # groupLog[i].g
        /\ usedBefore(groupLog[i].g, i) # <<>>
        /\ storedChain(groupLog[i].method, groupLog[i].path)
             = Append(usedBefore(groupLog[i].g, i), groupLog[i].h)

----------------------------------------------------------------------------
(* Nested groups.  RouteGroup.Group has callers (README, the examples) but *)
(* no definition in the sources at hand; it is taken from the              *)
(* specification: the prefix of the parent followed by sub, and the        *)
(* parent's middleware so far in a slice of its own.                       *)

MaxNest == 3        \* RouteGroups made, nested ones included

\* variant of RouteGroupGroup with a fault: the parent's prefix is dropped
RouteGroupGroup_subOnly(h, g, sub) ==
    LET m == makeSlice(h, g.handlers.len)
        a == appendSlice(m.arrays, m.s, elems(h, g.handlers))
    IN  [arrays |-> a.arrays, g |-> [prefix |-> sub, handlers |-> a.s]]

\* RouteGroup.Group
RouteGroupGroup(h, g, sub) ==
    LET m == makeSlice(h, g.handlers.len)
        a == appendSlice(m.arrays, m.s, elems(h, g.handlers))
    IN  [arrays |-> a.arrays, g |-> [prefix |-> g.prefix \o sub, handlers |-> a.s]]

NestPrefixes == { <<Slash, "a">>, <<Slash, "c">> }

\* groups[parent].Group(sub)
SubGroup(parent, sub) ==
    /\ parent <= Len(groups)
    /\ Len(groups) < MaxNest
    /\ Len(groupLog) < MaxGroupCalls
    /\ LET n == RouteGroupGroup(arrays, groups[parent], sub)
       IN  /\ arrays' = n.arrays
           /\ groups' = Append(groups, n.g)
    /\ groupLog' = Append(groupLog, [op |-> "Group", g |-> Len(groups) + 1,
                                     method |-> "", path |-> sub,
                                     h |-> [kind |-> "parent", id |-> parent]])
    /\ UNCHANGED <<trieVars, dispatchVars, calls, poolVars, mergeVars, storeVars, shareVars, lateVars>>

NestNext ==
    \/ \E prefix \in GroupPrefixes : RouterGroup(prefix)
    \/ \E g \in 1..MaxNest, sub \in NestPrefixes : SubGroup(g, sub)
    \/ \E g \in 1..MaxNest, m \in GroupMethods, p \in GroupRoutePaths :
          VerbOn(g, m, p)

SpecNest == Init /\ [][NestNext]_vars

\* the Group call that made group g; {} for a group made by Router.Group
madeBy(g) == { i \in GroupLogIdx : groupLog[i].op = "Group" /\ groupLog[i].g = g }

\* how deep group g is nested: 0 for a group of the Router
RECURSIVE depth(_)
depth(g) == IF madeBy(g) = {} THEN 0
            ELSE 1 + depth(groupLog[lastOf(madeBy(g))].h.id)

\* the prefixes given on the way from the Router down to group g, joined
RECURSIVE nestedPrefix(_)
nestedPrefix(g) ==
    IF madeBy(g) = {} THEN groups[g].prefix
    ELSE LET e == groupLog[lastOf(madeBy(g))]
         IN  nestedPrefix(e.h.id) \o e.path

\* C21: nested groups.  A group made by Group(sub) on a group has the
\* prefixes given from the Router down to it, concatenated, as its prefix,
\* at any depth; a route registered on it at path is resolved at that
\* concatenation followed by path, with the registered handler last in its
\* chain.
C21_NestedGroups ==
    /\ \A g \in 1..Len(groups) : groups[g].prefix = nestedPrefix(g)
    /\ \A i \in GroupLogIdx :
          (groupLog[i].op = "VERB" /\ notOverwritten(i)) =>
              \E p \in GroupRoutePaths :
                 /\ groupLog[i].path = nestedPrefix(groupLog[i].g) \o p
                 /\ lookupIdx(router, groupLog[i].method, nestedPrefix(groupLog[i].g) \o p).ok
                 /\ LET ch == storedChain(groupLog[i].method, nestedPrefix(groupLog[i].g) \o p)
                    IN  ch # <<>> /\ ch[Len(ch)] = groupLog[i].h

\* C21 witness: Group("/a").Group("/c").Group("/a") registered GET "/c",
\* and GET /a/c/a/c resolves to it.
C21_Witness ==
    \E i \in GroupLogIdx :
        /\ groupLog[i].op = "VERB"
        /\ depth(groupLog[i].g) = 2
        /\ groupLog[i].path = <<Slash, "a", Slash, "c", Slash, "a", Slash, "c">>
        /\ storedChain("GET", <<Slash, "a", Slash, "c", Slash, "a", Slash, "c">>)
             = <<groupLog[i].h>>

----------------------------------------------------------------------------
(* Failure helpers, and the dispatch of chains whose handlers call them    *)

StatusBadRequest == 400
StatusUnauthorized == 401
StatusForbidden == 403

NotFound(cw, message) ==
    Fail(cw, StatusNotFound, IF message = "" THEN "Not Found" ELSE message)

BadRequest(cw, message) ==
    Fail(cw, StatusBadRequest, IF message = "" THEN "Bad request" ELSE message)

Unauthorized(cw, message) ==
    Fail(cw, StatusUnauthorized, IF message = "" THEN "Unauthorized" ELSE message)

Forbidden(cw, message) ==
    Fail(cw, StatusForbidden, IF message = "" THEN "Forbidden" ELSE message)

InternalServerError(cw, message) ==
    Fail(cw, StatusInternalServerError,
         IF message = "" THEN "Internal Server Error" ELSE message)

FailHelpers == { "Fail", "FailWithError", "NotFound", "BadRequest", "Unauthorized",
                 "Forbidden", "InternalServerError" }
FailCodes == { StatusBadRequest, StatusInternalServerError }
FailMessages == { "", "denied" }

\* the call c.<helper>(...) a handler makes; code is used by Fail and
\* FailWithError only
failCall(cw, helper, code, message) ==
    CASE helper = "Fail" -> Fail(cw, code, message)
      [] helper = "FailWithError" -> FailWithError(cw, code, message)
      [] helper = "NotFound" -> NotFound(cw, message)
      [] helper = "BadRequest" -> BadRequest(cw, message)
      [] helper = "Unauthorized" -> Unauthorized(cw, message)
      [] helper = "Forbidden" -> Forbidden(cw, message)
      [] helper = "InternalServerError" -> InternalServerError(cw, message)

\* a handler calls one of the failure helpers
HandlerFail(helper, code, message) ==
    /\ phase = "serving"
    /\ Top.f = "handler"
    /\ Top.pc <= Len(Top.prog)
    /\ Top.prog[Top.pc] = "Fail"
    /\ helper \in {"Fail", "FailWithError"} \/ code = StatusBadRequest
    /\ LET cw == failCall([c |-> ctx, w |-> writer], helper, code, message)
       IN  ctx' = cw.c /\ writer' = cw.w
    /\ stack' = SetTop(stack, [Top EXCEPT !.pc = @ + 1])
    /\ log' = Append(log, Event("fail", Top.lvl, Top.k,
                                [helper |-> helper, code |-> code, message |-> message,
                                 written |-> ctx.written, chunks |-> Len(writer.body)]))
    /\ UNCHANGED <<router, group, handlerChain, phase, served>>
    /\ UNCHANGED <<trieVars, calls, auxVars>>

FailChainHandlers == { Fn(<<"Next">>), Fn(<<"Fail">>), Fn(<<"Fail", "Next">>), RouterHandler }
FailGroupMiddleware == { Fn(<<"Fail">>) }
FailRouteHandlers == { Fn(<<>>) }
FailReqPaths == { <<Slash, "a", Slash, "c">> }

FailNext ==
    \/ \E h \in FailChainHandlers : addHandler(h)
    \/ \E mw \in FailGroupMiddleware : GroupUse(mw)
    \/ \E p \in GroupPaths, h \in FailRouteHandlers : GroupGET(p, h)
    \/ \E p \in FailReqPaths : ServeHTTP("GET", p)
    \/ NextCallHandler
    \/ NextReturn
    \/ HandlerNext
    \/ \E helper \in FailHelpers, code \in FailCodes, message \in FailMessages :
          HandlerFail(helper, code, message)
    \/ HandlerReturn
    \/ HandleHTTPNotFound
    \/ HandleHTTPFound
    \/ RouteCallHandler
    \/ HandleHTTPReturn
    \/ ServeHTTPPut

SpecFail == Init /\ [][FailNext]_vars

\* the status a failure call answers with
failStatus(v) ==
    CASE v.helper \in {"Fail", "FailWithError"} -> v.code
      [] v.helper = "NotFound" -> 404
      [] v.helper = "BadRequest" -> 400
      [] v.helper = "Unauthorized" -> 401
      [] v.helper = "Forbidden" -> 403
      [] v.helper = "InternalServerError" -> 500

\* the message a failure call answers with
failMessage(v) ==
    IF v.message # "" \/ v.helper \in {"Fail", "FailWithError"} THEN v.message
    ELSE CASE v.helper = "NotFound" -> "Not Found"
           [] v.helper = "BadRequest" -> "Bad request"
           [] v.helper = "Unauthorized" -> "Unauthorized"
           [] v.helper = "Forbidden" -> "Forbidden"
           [] v.helper = "InternalServerError" -> "Internal Server Error"

\* the response of a failure call on a Context that had not written
failFlushed(v) ==
    /\ writer.codes # <<>>
    /\ writer.codes[1] = failStatus(v)
    /\ Len(writer.body) > v.chunks
    /\ writer.body[v.chunks + 1] =
          [enc |-> "json", text |-> failMessage(v), error |-> TRUE, status |-> failStatus(v)]

\* C22: failure helpers.  After a handler called Fail, FailWithError or one
\* of the named helpers on a Context that had not written, the response
\* was flushed with the helper's status and the JSON body with error = true,
\* the (default) message and that status, Abort is set, and no handler is
\* entered after the call.
C22_FailureHelpers ==
    \A p \in LogIdx :
        log[p].ev = "fail" =>
            /\ ctx.aborted
            /\ ~log[p].val.written => failFlushed(log[p].val)
            /\ \A q \in LogIdx : q > p => log[q].ev # "enter"

----------------------------------------------------------------------------
(* Claims about the Context between two Resets                             *)

\* the step is the Reset that hands the Context to the next request
resetStep == \E m \in RequestMethods, p \in RequestPaths, q \in RequestQueries :
                PooledReset(m, p, q)

\* C23: Abort is one-way.  Once aborted is set it stays set through every
\* call made on the Context (SetParam, Set, Error, Abort, Next, SetHeader,
\* SendString) until the Reset for the next request.
C23_AbortOneWay == [][(ctx.aborted /\ ~resetStep) => ctx'.aborted]_vars

\* C23 witness: an aborted Context on which Next() was called and a
\* response was sent.
C23_Witness ==
    /\ ctx.aborted
    /\ ctx.index = 0
    /\ ctx.written
    /\ calls >= 3

----------------------------------------------------------------------------
(* The user store under fan-out: goroutines spawned by a handler call Get  *)
(* and Set on the Context of the request.  A map that is read while        *)
(* another goroutine writes it is a data race: the read may give anything  *)
(* or stop the program.                                                    *)

\* sync.RWMutex: Lock waits until no goroutine holds the mutex
canLock(m) == m.w = 0 /\ m.r = {}
Lock(m, t) == [m EXCEPT !.w = t]
Unlock(m) == [m EXCEPT !.w = 0]

\* variant of canRLock with a fault: RLock does not wait for the writer
canRLock_noWait(m) == TRUE

\* RLock waits until no goroutine holds Lock
canRLock(m) == m.w = 0
RLock(m, t) == [m EXCEPT !.r = @ \cup {t}]
RUnlock(m, t) == [m EXCEPT !.r = @ \ {t}]

\* value, exists = c.store[key]
storeRead(c, key) ==
    IF key \in DOMAIN c.store THEN [exists |-> TRUE, value |-> c.store[key]]
    ELSE Absent

\* what a read of the map can give while a write to it is under way
RacyReads == { Absent, [exists |-> TRUE, value |-> <<0, 0>>], [exists |-> FALSE, value |-> "fatal"] }

\* a goroutine calls c.Get(key) or c.Set(key, value)
SubCall(t, op, key) ==
    /\ subs[t].pc = "idle"
    /\ subs[t].n < MaxOps
    /\ subs' = [subs EXCEPT ![t] = [@ EXCEPT !.pc = "called", !.op = op, !.key = key,
                                             !.val = <<t, subs[t].n + 1>>,
                                             !.floor = storeHist[key].returned]]
    /\ UNCHANGED <<storeMutex, mapBusy, storeHist>>
    /\ UNCHANGED <<trieVars, dispatchVars, calls, poolVars, mergeVars, groupVars, shareVars, lateVars>>

\* Set: c.storeMutex.Lock()
SetLock(t) ==
    /\ subs[t].pc = "called" /\ subs[t].op = "Set"
    /\ canLock(storeMutex)
    /\ storeMutex' = Lock(storeMutex, t)
    /\ subs' = [subs EXCEPT ![t].pc = "locked"]
    /\ UNCHANGED <<mapBusy, storeHist>>
    /\ UNCHANGED <<trieVars, dispatchVars, calls, poolVars, mergeVars, groupVars, shareVars, lateVars>>

\* Set: c.store[key] = value begins
SetWriteBegin(t) ==
    /\ subs[t].pc = "locked" /\ subs[t].op = "Set"
    /\ mapBusy' = t
    /\ subs' = [subs EXCEPT ![t].pc = "writing"]
    /\ UNCHANGED <<storeMutex, storeHist>>
    /\ UNCHANGED <<trieVars, dispatchVars, calls, poolVars, mergeVars, groupVars, shareVars, lateVars>>

\* Set: c.store[key] = value is done
SetWriteEnd(t) ==
    /\ subs[t].pc = "writing"
    /\ ctx' = Set(ctx, subs[t].key, subs[t].val)
    /\ mapBusy' = 0
    /\ storeHist' = [storeHist EXCEPT ![subs[t].key].written = Append(@, subs[t].val)]
    /\ subs' = [subs EXCEPT ![t].pc = "written"]
    /\ UNCHANGED <<storeMutex>>
    /\ UNCHANGED <<router, group, handlerChain, writer, stack, log, phase, served>>
    /\ UNCHANGED <<trieVars, calls, poolVars, mergeVars, groupVars, shareVars, lateVars>>

\* Set: the deferred c.storeMutex.Unlock(), and Set returns
SetUnlock(t) ==
    /\ subs[t].pc = "written"
    /\ storeMutex' = Unlock(storeMutex)
    /\ storeHist' = [storeHist EXCEPT ![subs[t].key].returned =
                        Max(@, CHOOSE i \in 1..Len(storeHist[subs[t].key].written) :
                                   storeHist[subs[t].key].written[i] = subs[t].val)]
    /\ subs' = [subs EXCEPT ![t] = [@ EXCEPT !.pc = "idle", !.n = @ + 1, !.last = "Set"]]
    /\ UNCHANGED <<mapBusy>>
    /\ UNCHANGED <<trieVars, dispatchVars, calls, poolVars, mergeVars, groupVars, shareVars, lateVars>>

\* Get: c.storeMutex.RLock()
GetRLock(t) ==
    /\ subs[t].pc = "called" /\ subs[t].op = "Get"
    /\ canRLock(storeMutex)
    /\ storeMutex' = RLock(storeMutex, t)
    /\ subs' = [subs EXCEPT ![t].pc = "locked"]
    /\ UNCHANGED <<mapBusy, storeHist>>
    /\ UNCHANGED <<trieVars, dispatchVars, calls, poolVars, mergeVars, groupVars, shareVars, lateVars>>

\* Get: value, exists = c.store[key]
GetRead(t) ==
    /\ subs[t].pc = "locked" /\ subs[t].op = "Get"
    /\ \E got \in (IF mapBusy = 0 THEN {storeRead(ctx, subs[t].key)} ELSE RacyReads) :
          subs' = [subs EXCEPT ![t] = [@ EXCEPT !.pc = "read", !.got = got]]
    /\ UNCHANGED <<storeMutex, mapBusy, storeHist>>
    /\ UNCHANGED <<trieVars, dispatchVars, calls, poolVars, mergeVars, groupVars, shareVars, lateVars>>

\* Get: the deferred c.storeMutex.RUnlock(), and Get returns
GetRUnlock(t) ==
    /\ subs[t].pc = "read"
    /\ storeMutex' = RUnlock(storeMutex, t)
    /\ subs' = [subs EXCEPT ![t] = [@ EXCEPT !.pc = "idle", !.n = @ + 1, !.last = "Get"]]
    /\ UNCHANGED <<mapBusy, storeHist>>
    /\ UNCHANGED <<trieVars, dispatchVars, calls, poolVars, mergeVars, groupVars, shareVars, lateVars>>

StoreNext ==
    \/ \E t \in 1..MaxTasks, op \in {"Get", "Set"}, key \in StoreKeys : SubCall(t, op, key)
    \/ \E t \in 1..MaxTasks : SetLock(t)
    \/ \E t \in 1..MaxTasks : SetWriteBegin(t)
    \/ \E t \in 1..MaxTasks : SetWriteEnd(t)
    \/ \E t \in 1..MaxTasks : SetUnlock(t)
    \/ \E t \in 1..MaxTasks : GetRLock(t)
    \/ \E t \in 1..MaxTasks : GetRead(t)
    \/ \E t \in 1..MaxTasks : GetRUnlock(t)

SpecStore == Init /\ [][StoreNext]_vars

\* the goroutine is between Lock and Unlock of Set / RLock and RUnlock of Get
inSet(t) == subs[t].op = "Set" /\ subs[t].pc \in {"locked", "writing", "written"}
inGet(t) == subs[t].op = "Get" /\ subs[t].pc \in {"locked", "read"}

\* the place of value v among the values written for key k; 0 when it is none of them
placeOf(k, v) ==
    LET S == { i \in 1..Len(storeHist[k].written) : storeHist[k].written[i] = v }
    IN  IF S = {} THEN 0 ELSE lastOf(S)

\* C24: user store under fan-out.  A goroutine inside Set excludes every
\* other goroutine inside Set or Get.  Every Get that has read gives either
\* absent or a value some Set wrote for its key, and when a Set for the key
\* had returned before the Get was called, the Get gives the value of that
\* Set or of a later one.
C24_StoreUnderFanOut ==
    /\ \A t, u \in 1..MaxTasks : (t # u /\ inSet(t)) => ~(inSet(u) \/ inGet(u))
    /\ \A t \in 1..MaxTasks :
          (subs[t].op = "Get" /\ (subs[t].pc = "read" \/ (subs[t].pc = "idle" /\ subs[t].last = "Get")))
            => LET g == subs[t].got IN
               /\ g.exists => placeOf(subs[t].key, g.value) > 0
               /\ ~g.exists => g = Absent
               /\ subs[t].floor > 0 =>
                     (g.exists /\ placeOf(subs[t].key, g.value) >= subs[t].floor)

\* C24 witness: both goroutines have set "user", and a Get called by the
\* first after its own Set had returned gave the value of the later Set of
\* the second.
C24_Witness ==
    /\ subs[1].last = "Get" /\ subs[1].pc = "idle" /\ subs[1].key = "user"
    /\ subs[1].floor = 1
    /\ subs[1].got = [exists |-> TRUE, value |-> <<2, 1>>]
    /\ storeHist["user"].written = << <<1, 1>>, <<2, 1>> >>

----------------------------------------------------------------------------
(* Claims about the shape of the tree                                      *)

\* the node the segments parts[i..] lead to from node n by segment text
RECURSIVE nodeAt(_, _, _, _)
nodeAt(t, n, parts, i) ==
    IF n = NilNode \/ i > Len(parts) THEN n
    ELSE nodeAt(t, childByPath(t, n, parts[i], 1), parts, i + 1)

\* the positions of the catch-all segments of parts that are not the last
catchAllInside(parts) ==
    { j \in 1..(Len(parts) - 1) : parts[j] # <<>> /\ parts[j][1] = Star }

\* C25: a catch-all ends insertion.  After Insert of a path in which a
\* `*name` segment is followed by further segments, the chain is on the
\* catch-all node and the catch-all node has no children.
C25_CatchAllEndsInsertion ==
    /\ \A n \in 1..Len(tree) : tree[n].nType = catchAll => tree[n].children = <<>>
    /\ \A i \in 1..Len(regs) :
          LET parts == splitPath(regs[i])
              js == catchAllInside(parts)
          IN  js # {} =>
                LET j == CHOOSE x \in js : \A y \in js : x <= y
                    n == nodeAt(tree, 1, SubSeq(parts, 1, j), 1)
                IN  n # NilNode /\ tree[n].Handlers # NilChain

----------------------------------------------------------------------------
(* Shape specification: registrations whose segments differ in the name of *)
(* the parameter or of the catch-all, on one tree and on two Routers that  *)
(* are merged                                                              *)

ShapePaths == { <<Slash, Colon, "x">>, <<Slash, Colon, "y">>,
                <<Slash, Star, "w">>, <<Slash, Star, "v">>, <<Slash, "a">> }

ShapeNext ==
    \/ \E p \in ShapePaths : TrieInsert(p)
    \/ \E p \in ShapePaths : RegisterA("GET", p)
    \/ \E p \in ShapePaths : RegisterB("GET", p)
    \/ Merge

SpecShape == Init /\ [][ShapeNext]_vars

\* the children of node n of tree t that are of kind ty
childrenOfKind(t, n, ty) ==
    { i \in 1..Len(t[n].children) : t[t[n].children[i]].nType = ty }

shapeOk(t) ==
    \A n \in 1..Len(t) :
        /\ Cardinality(childrenOfKind(t, n, param)) <= 1
        /\ Cardinality(childrenOfKind(t, n, catchAll)) <= 1
        /\ \A i, j \in childrenOfKind(t, n, static) :
              i # j => t[t[n].children[i]].path # t[t[n].children[j]].path

\* C26: trie shape.  After any sequence of Insert and MergeRouter, every
\* node has at most one param child and at most one catch-all child, and
\* its static children differ in their segment text.
C26_TrieShape ==
    /\ shapeOk(tree)
    /\ \A m \in DOMAIN routerA : shapeOk(routerA[m])
    /\ \A m \in DOMAIN routerB : shapeOk(routerB[m])

----------------------------------------------------------------------------
(* App.ServeHTTP of the variant without a handler chain: it makes a        *)
(* Context, calls getRoute(method).FindChild(path) and drops the result,   *)
(* then calls Router.HandleHTTP                                            *)

\* Router.getRoute as a statement: the tree it returns is stored under the method
storeRoute(r, method) ==
    [m \in (DOMAIN r) \cup {method} |-> IF m = method THEN getRoute(r, method) ELSE r[m]]

AppFrame == Frame("AppServeHTTP", "", 0, <<>>, 0)

\* App.ServeHTTP up to the call of HandleHTTP
AppServeHTTP(method, path) ==
    /\ phase \in {"setup", "idle"}
    /\ served < MaxRequests
    /\ ctx' = Reset(NewContext, method, path, EmptyMap)
    /\ writer' = NewWriter
    /\ router' = storeRoute(router, method)
    /\ stack' = <<AppFrame, HandlerFrame("app", 1, RouterHandler)>>
    /\ log' = <<>>
    /\ phase' = "serving"
    /\ served' = served + 1
    /\ UNCHANGED <<group, handlerChain>>
    /\ UNCHANGED <<trieVars, calls, auxVars>>

\* App.ServeHTTP returns
AppServeHTTPReturn ==
    /\ phase = "serving"
    /\ Top.f = "AppServeHTTP"
    /\ stack' = <<>>
    /\ phase' = "idle"
    /\ UNCHANGED <<router, group, handlerChain, ctx, writer, log, served>>
    /\ UNCHANGED <<trieVars, calls, auxVars>>

AppChainHandlers == { RouterHandler, Fn(<<"Next">>) }
AppReqPaths == { <<Slash, "a", Slash, "c">>, <<Slash, "c">> }

AppNext ==
    \/ \E h \in AppChainHandlers : addHandler(h)
    \/ \E p \in GroupPaths, h \in RouteGroupHandlers : GroupGET(p, h)
    \/ \E m \in Methods, p \in AppReqPaths : ServeHTTP(m, p)
    \/ \E m \in Methods, p \in AppReqPaths : AppServeHTTP(m, p)
    \/ NextCallHandler
    \/ NextReturn
    \/ HandlerNext
    \/ HandlerReturn
    \/ HandleHTTPNotFound
    \/ HandleHTTPFound
    \/ RouteCallHandler
    \/ HandleHTTPReturn
    \/ ServeHTTPPut
    \/ AppServeHTTPReturn

SpecApp == Init /\ [][AppNext]_vars

\* C27: matching is read-only.  No step of serving a request, whether it
\* matches or not and whether its method is known or not, changes the
\* Router: the method map and every node of every tree stay as they are.
C27_MatchingReadOnly == [][phase' # "setup" => router' = router]_vars

----------------------------------------------------------------------------
(* MergeRouter with the pointers kept.  The routeNodes of both Routers    *)
(* live in one heap (nodes); a Router is its method map into that heap.   *)
(* MergeRouter stores `other`'s root, and appends `other`'s children, by  *)
(* pointer, so a node can be reached from both Routers.                   *)

\* getRoute on the heap: the root of method, made and stored when missing
getRoutePtr(h, roots, method) ==
    IF method \in DOMAIN roots
    THEN [h |-> h, roots |-> roots, root |-> roots[method]]
    ELSE [h |-> Append(h, NewTire), roots |-> MapPut(roots, method, Len(h) + 1),
          root |-> Len(h) + 1]

\* Router.addRoute on the heap: getRoute, then Insert from that root
addRoutePtr(h, roots, path, method, handlers) ==
    LET g == getRoutePtr(h, roots, method)
        s == InsertPartsIdx(g.h, g.root, splitPath(path), 1)
    IN  [h |-> IF Len(path) = 0 THEN g.h
               ELSE [s.t EXCEPT ![s.cur].Handlers = handlers],
         roots |-> g.roots]

\* what HandleHTTP finds for (method, path) on the Router with these roots
lookupPtr(h, roots, method, path) ==
    IF method \notin DOMAIN roots \/ path = <<>>
    THEN [ok |-> FALSE, hs |-> NilChain, params |-> EmptyMap]
    ELSE LET m == findLoopIdx(h, splitPath(path), 1, roots[method], EmptyMap) IN
         IF m.node = NilNode \/ h[m.node].Handlers = NilChain
         THEN [ok |-> FALSE, hs |-> NilChain, params |-> EmptyMap]
         ELSE [ok |-> TRUE, hs |-> h[m.node].Handlers, params |-> m.params]

\* existing.children = append(existing.children, otherChild);
\* existing.indices += otherChild.path[0:1]   (otherChild is a *routeNode)
adoptChildPtr(h, e, oc) ==
    [h EXCEPT ![e].children = Append(@, oc),
              ![e].indices = Append(@, h[oc].path[1])]

RECURSIVE mergeRouteNodesPtr(_, _, _)
RECURSIVE mergeChildrenPtr(_, _, _, _)
\* mergeRouteNodes(existing, other) on the nodes e and o of the heap
mergeRouteNodesPtr(h, e, o) ==
    mergeChildrenPtr([h EXCEPT ![e].Handlers = mergeHandlers(@, h[o].Handlers)],
                     e, o, 1)

mergeChildrenPtr(h, e, o, j) ==
    IF j > Len(h[o].children) THEN h
    ELSE LET oc == h[o].children[j]
             ec == IF Len(h[oc].path) > 0
                   THEN childByIndex(h, e, h[oc].path)
                   ELSE childByPath(h, e, h[oc].path, 1)
         IN  IF ec # NilNode
             THEN mergeChildrenPtr(mergeRouteNodesPtr(h, ec, oc), e, o, j + 1)
             ELSE mergeChildrenPtr(adoptChildPtr(h, e, oc), e, o, j + 1)

RECURSIVE mergeMethodsPtr(_, _, _, _)
\* the loop of MergeRouter over other.route, the methods taken in the order ms
mergeMethodsPtr(h, roots, otherRoots, ms) ==
    IF ms = <<>> THEN [h |-> h, roots |-> roots]
    ELSE LET method == Head(ms) IN
         IF method \notin DOMAIN otherRoots
         THEN mergeMethodsPtr(h, roots, otherRoots, Tail(ms))
         ELSE IF method \in DOMAIN roots
         THEN mergeMethodsPtr(mergeRouteNodesPtr(h, roots[method], otherRoots[method]),
                              roots, otherRoots, Tail(ms))
         ELSE mergeMethodsPtr(h, MapPut(roots, method, otherRoots[method]),
                              otherRoots, Tail(ms))

\* r.MergeRouter(other) on the heap
MergeRouterPtr(h, roots, otherRoots) ==
    mergeMethodsPtr(h, roots, otherRoots, <<"GET", "POST">>)

\* other.GET(path, h), other.POST(path, h), before or after the merge
ShareRegisterA(method, path) ==
    /\ Len(regsA) < MaxMergeRoutes
    /\ LET a == addRoutePtr(nodes, rootsA, path, method, ChainOf("A", Len(regsA) + 1))
       IN  /\ nodes' = a.h
           /\ rootsA' = a.roots
    /\ regsA' = Append(regsA, Registration(method, path, ChainOf("A", Len(regsA) + 1)))
    /\ UNCHANGED <<rootsB, routerA, routerB, regsB, merged, mreq>>
    /\ UNCHANGED <<trieVars, dispatchVars, calls, poolVars, groupVars, storeVars, lateVars>>

\* r.GET(path, h), r.POST(path, h), before or after the merge
ShareRegisterB(method, path) ==
    /\ Len(regsB) < MaxMergeRoutes
    /\ LET b == addRoutePtr(nodes, rootsB, path, method, ChainOf("B", Len(regsB) + 1))
       IN  /\ nodes' = b.h
           /\ rootsB' = b.roots
    /\ regsB' = Append(regsB, Registration(method, path, ChainOf("B", Len(regsB) + 1)))
    /\ UNCHANGED <<rootsA, routerA, routerB, regsA, merged, mreq>>
    /\ UNCHANGED <<trieVars, dispatchVars, calls, poolVars, groupVars, storeVars, lateVars>>

\* r.MergeRouter(other), once
ShareMerge ==
    /\ ~merged
    /\ LET m == MergeRouterPtr(nodes, rootsB, rootsA)
       IN  /\ nodes' = m.h
           /\ rootsB' = m.roots
    /\ merged' = TRUE
    /\ UNCHANGED <<rootsA, routerA, routerB, regsA, regsB, mreq>>
    /\ UNCHANGED <<trieVars, dispatchVars, calls, poolVars, groupVars, storeVars, lateVars>>

ShareNext ==
    \/ \E mp \in MergeRoutes : ShareRegisterA(mp[1], mp[2])
    \/ \E mp \in MergeRoutes : ShareRegisterB(mp[1], mp[2])
    \/ ShareMerge

SpecShare == Init /\ [][ShareNext]_vars

\* what every lookup gives on the Router with these roots
resolves(h, roots) ==
    [m \in MergeMethods, p \in MergeReqPaths |-> lookupPtr(h, roots, m, p)]

\* C28: routers stay independent after a merge.  Once r.MergeRouter(other)
\* has returned, a route registered on `other` changes no lookup on r, and a
\* route registered on r changes no lookup on `other`.
C28_IndependentAfterMerge ==
    [][merged /\ merged' =>
         /\ regsA' # regsA => resolves(nodes', rootsB') = resolves(nodes, rootsB)
         /\ regsB' # regsB => resolves(nodes', rootsA') = resolves(nodes, rootsA)]_vars

----------------------------------------------------------------------------
(* Claims about what the registered routes promise to a request            *)

\* the path syntax: the route segments rp[i..] match the request segments
\* q[i..]: a literal segment by equal text, `:name` any one segment, `*name`
\* as the last route segment one or more remaining segments
RECURSIVE matchesFrom(_, _, _)
matchesFrom(rp, q, i) ==
    IF i > Len(rp) THEN i > Len(q)
    ELSE IF i > Len(q) THEN FALSE
    ELSE IF rp[i][1] = Star THEN i = Len(rp)
    ELSE IF rp[i][1] = Colon THEN matchesFrom(rp, q, i + 1)
    ELSE rp[i] = q[i] /\ matchesFrom(rp, q, i + 1)

\* the registrations whose path matches the request under the path syntax
matchingRoutes(q) ==
    { k \in 1..Len(regs) : matchesFrom(splitPath(regs[k]), q, 1) }

\* C29: match completeness.  When at least one registered route matches the
\* request path under the path syntax, the lookup gives a node that holds a
\* chain, so that dispatch invokes a chain and does not answer 404.
C29_MatchCompleteness ==
    (req # NoReq /\ matchingRoutes(req.parts) # {})
        => found.node # NilNode /\ tree[found.node].Handlers # NilChain

\* C30: registration is monotone.  No registration of a further route turns
\* a request path that resolved to a chain before it into one that resolves
\* to none (a 404).
C30_RegistrationMonotone ==
    [][\A q \in ReqPaths :
          matchResult(tree, q).ok => matchResult(tree', q).ok]_vars

----------------------------------------------------------------------------
(* Redirect among the response calls                                       *)

StatusFound == 302

\* Redirect(code, location): SetStatus, SetHeader, then WriteHeader and
\* Write on the writer itself; c.written is not touched
Redirect(cw, code, location) ==
    LET s == SetHeader(SetStatus(cw, code), "Location", <<location>>)
    IN  [s EXCEPT !.w.codes = Append(@, code),
                  !.w.body = Append(@, Raw("Redirecting to: " \o location))]

CallRedirect(code) ==
    /\ calls < MaxCalls
    /\ respond(Redirect(CW, code, "/login"))

RedirectNext ==
    \/ \E code \in { StatusFound } : CallRedirect(code)
    \/ \E code \in StatusCodes : CallSetStatus(code)
    \/ CallWrite
    \/ \E code \in StatusCodes : CallSendString(code)
    \/ \E code \in StatusCodes, ok \in BOOLEAN : CallSendJson(code, ok)
    \/ \E code \in StatusCodes : CallFail(code)
    \/ CallReset

SpecRedirect == Init /\ [][RedirectNext]_vars

\* Redirect was called in this request
redirected == "Location" \in DOMAIN ctx.headers

\* the step is a call of Redirect
redirectStep ==
    /\ Len(writer'.body) = Len(writer.body) + 1
    /\ writer'.body[Len(writer'.body)] = Raw("Redirecting to: /login")

\* C31: Redirect takes part in the write-once discipline.  After Redirect
\* the Context records that the status line has been flushed, and a later
\* Write, Send* or Fail* of the same request hands no further status line
\* to the writer.
C31_RedirectWriteOnce ==
    /\ [](redirected => ctx.written)
    /\ [][(redirected /\ ~redirectStep /\ ~isReset) => writer'.codes = writer.codes]_vars

\* StatusCode(): the status the Context holds
StatusCode(c) == c.statusCode

\* C32: reported status equals wire status.  At every point of a request
\* after the first flush, StatusCode() is the status the writer received
\* with that flush, whatever response calls followed it.
C32_ReportedIsWireStatus ==
    ctx.written => (writer.codes # <<>> /\ StatusCode(ctx) = writer.codes[1])

----------------------------------------------------------------------------
(* core.ServeHTTP when the value the pool yields is not a *Context         *)

\* core.ServeHTTP through its !ok branch, up to the loop of the top-level
\* Next(): NewContext(writer, request), SetHandles, and the c.index++ of
\* Next.  The request is kept as the first entry of the log.
ServeHTTPFallback(method, path) ==
    /\ phase \in {"setup", "idle"}
    /\ served < MaxRequests
    /\ ctx' = nextEntry(SetHandles(NewContext, handlerChain))
    /\ writer' = NewWriter
    /\ stack' = <<ServeFrame, NextFrame(Len(handlerChain))>>
    /\ log' = <<Event("fallback", "", 0, [method |-> method, path |-> path])>>
    /\ phase' = "serving"
    /\ served' = served + 1
    /\ UNCHANGED <<router, group, handlerChain>>
    /\ UNCHANGED <<trieVars, calls, auxVars>>

FallbackNext ==
    \/ \E h \in AppChainHandlers : addHandler(h)
    \/ \E p \in GroupPaths, h \in RouteGroupHandlers : GroupGET(p, h)
    \/ \E m \in Methods, p \in AppReqPaths : ServeHTTP(m, p)
    \/ \E m \in Methods, p \in AppReqPaths : ServeHTTPFallback(m, p)
    \/ NextCallHandler
    \/ NextReturn
    \/ HandlerNext
    \/ HandlerReturn
    \/ HandleHTTPNotFound
    \/ HandleHTTPFound
    \/ RouteCallHandler
    \/ HandleHTTPReturn
    \/ ServeHTTPPut

SpecFallback == Init /\ [][FallbackNext]_vars

\* the request is served through the !ok branch
viaFallback == phase # "setup" /\ log # <<>> /\ log[1].ev = "fallback"

\* C33: the defensive fallback dispatches normally.  A request served on
\* the Context that NewContext(writer, request) made finds its method and
\* path on the Context, and the Router answers not found only when no
\* route is registered for them.
C33_FallbackDispatches ==
    viaFallback =>
        /\ ctx.method = log[1].val.method
        /\ ctx.path = log[1].val.path
        /\ \A p \in 1..Len(log) :
              log[p].ev = "notfound" => ~lookup(router, log[1].val).ok

----------------------------------------------------------------------------
(* The CORS middleware in the chain                                        *)

\* CorsConfig as the application sets it: SetAllowOrigins and
\* SetAllowHeaders (compared in lower case), and the allowMethods of NewCors
allowOrigins == <<"https://good">>
allowMethods == <<"GET">>
allowHeaders == <<"accept", "content-type">>

\* the handler CorsConfig.HandleHTTP in a chain
CorsHandler == Fn(<<"Cors">>)

InSeq(sq, x) == \E i \in 1..Len(sq) : sq[i] = x

isAllowedOrigin(origin) ==
    /\ origin # ""
    /\ Len(allowOrigins) # 0
    /\ (allowOrigins[1] = "*" \/ InSeq(allowOrigins, origin))

isAllowedMethod(method) ==
    Len(allowMethods) # 0 /\ (allowMethods[1] = "*" \/ InSeq(allowMethods, method))

isAllowedHeaders(header) ==
    Len(allowHeaders) # 0 /\ (allowHeaders[1] = "*" \/ InSeq(allowHeaders, header))

\* ctx.Writer.Write(bytes): the bytes go to the writer, past Context.Write
writerWrite(cw, text) == [cw EXCEPT !.w.body = Append(@, Raw(text))]

\* handlePreflight: Abort first; a 403 for a method or a header that is not
\* allowed, else the preflight headers and status 200
handlePreflight(cw, origin, requestMethod, requestHeaders) ==
    LET a == Abort(cw) IN
    IF requestMethod = "" \/ ~isAllowedMethod(requestMethod)
    THEN writerWrite(SetStatus(Abort(a), StatusForbidden), "Method not allowed")
    ELSE IF requestHeaders # "" /\ ~isAllowedHeaders(requestHeaders)
    THEN writerWrite(SetStatus(a, StatusForbidden), "Header not allowed: " \o requestHeaders)
    ELSE LET h1 == SetHeader(a, "Access-Control-Allow-Origin", <<origin>>)
             h2 == SetHeader(h1, "Access-Control-Allow-Methods", allowMethods)
             h3 == SetHeader(h2, "Access-Control-Allow-Headers",
                             IF requestHeaders # "" THEN <<requestHeaders>>
                             ELSE allowHeaders)
             h4 == SetHeader(h3, "Access-Control-Max-Age", <<"600">>)
         IN  SetStatus(h4, StatusOK)

\* what CorsConfig.HandleHTTP does with the request before it returns or
\* calls ctx.Next(): [cw, outcome]
corsDecision(cw, origin, requestMethod, requestHeaders) ==
    IF origin = "" THEN [cw |-> cw, outcome |-> "pass"]
    ELSE LET v == SetHeader(cw, "Vary", <<"Origin">>) IN
         IF ~isAllowedOrigin(origin)
         THEN [cw |-> writerWrite(SetStatus(v, StatusForbidden), "Origin not allowed"),
               outcome |-> "reject"]
         ELSE LET o == SetHeader(v, "Access-Control-Allow-Origin", <<origin>>) IN
              IF cw.c.method = "OPTIONS"
              THEN [cw |-> handlePreflight(o, origin, requestMethod, requestHeaders),
                    outcome |-> "preflight"]
              ELSE [cw |-> o, outcome |-> "allow"]

\* the Origin header of the request is the one every earlier read of it gave
sameOrigin(origin) ==
    \A p \in 1..Len(log) : log[p].ev = "cors" => log[p].val.origin = origin

\* CorsConfig.HandleHTTP up to its return, or up to the loop of the Next()
\* it calls
CorsHandleHTTP(origin, requestMethod, requestHeaders) ==
    /\ phase = "serving"
    /\ Top.f = "handler"
    /\ Top.pc <= Len(Top.prog)
    /\ Top.prog[Top.pc] = "Cors"
    /\ sameOrigin(origin)
    /\ LET d == corsDecision([c |-> ctx, w |-> writer], origin, requestMethod,
                             requestHeaders)
           goesOn == d.outcome \in {"pass", "allow"}
       IN  /\ ctx' = IF goesOn THEN nextEntry(d.cw.c) ELSE d.cw.c
           /\ writer' = d.cw.w
           /\ stack' = IF goesOn
                       THEN Append(SetTop(stack, [Top EXCEPT !.pc = @ + 1]),
                                   NextFrame(Len(ctx.handlers)))
                       ELSE SetTop(stack, [Top EXCEPT !.pc = @ + 1])
           /\ log' = Append(log, Event("cors", Top.lvl, Top.k,
                                       [origin |-> origin, outcome |-> d.outcome]))
    /\ UNCHANGED <<router, group, handlerChain, phase, served>>
    /\ UNCHANGED <<trieVars, calls, auxVars>>

CorsChainHandlers == { CorsHandler, RouterHandler, Fn(<<>>) }
CorsMethods == { "GET", "OPTIONS" }
CorsReqPaths == { <<Slash, "a", Slash, "c">> }
Origins == { "", "https://good", "https://evil" }
RequestMethodHeaders == { "", "GET", "PUT" }
RequestHeadersHeaders == { "", "accept", "x-bad" }

CorsNext ==
    \/ \E h \in CorsChainHandlers : addHandler(h)
    \/ \E p \in GroupPaths, h \in RouteGroupHandlers : GroupGET(p, h)
    \/ \E m \in CorsMethods, p \in CorsReqPaths : ServeHTTP(m, p)
    \/ \E o \in Origins, rm \in RequestMethodHeaders, rh \in RequestHeadersHeaders :
          CorsHandleHTTP(o, rm, rh)
    \/ NextCallHandler
    \/ NextReturn
    \/ HandlerReturn
    \/ HandleHTTPNotFound
    \/ HandleHTTPFound
    \/ RouteCallHandler
    \/ HandleHTTPReturn
    \/ ServeHTTPPut

SpecCors == Init /\ [][CorsNext]_vars

\* the CORS middleware has answered "Origin not allowed" at log entry p
rejectedAt(p) == log[p].ev = "cors" /\ log[p].val.outcome = "reject"

\* C34: a CORS rejection stops the chain.  After the CORS middleware has
\* rejected the request's Origin, no handler of the chain and no handler of
\* a route is entered for that request.
C34_CorsRejectionStops ==
    \A p \in 1..Len(log) :
        rejectedAt(p) => \A q \in (p + 1)..Len(log) : log[q].ev # "enter"

----------------------------------------------------------------------------
(* HighPerformanceFIFO.  Every atomic operation and every access to a      *)
(* buffer slot is one step of the goroutine that makes it; the goroutines  *)
(* interleave freely.                                                      *)

earlyVars == <<trieVars, dispatchVars, calls, poolVars, mergeVars, groupVars,
               storeVars, shareVars>>

\* tail & fifo.mask as an index of the buffer (1-based)
slot(q, pos) == (pos % (q.mask + 1)) + 1

\* return from Enqueue or Dequeue
fifoReturn(p, item, ok) ==
    [fprocs EXCEPT ![p].pc = "idle", ![p].ret = [item |-> item, ok |-> ok]]

\* a goroutine calls Enqueue(item): the closed test
Enqueue(p) ==
    /\ fprocs[p].pc = "idle"
    /\ fprocs[p].n < MaxFifoCalls
    /\ fprocs' = IF fifo.closed = 1
                 THEN [fifoReturn(p, NilItem, FALSE) EXCEPT ![p].n = @ + 1]
                 ELSE [fprocs EXCEPT ![p].pc = "e.loadTail", ![p].n = @ + 1,
                                     ![p].item = <<p, fprocs[p].n + 1>>]
    /\ UNCHANGED <<fifo, fhist, spsc, sprocs, shist, earlyVars, fileVars, rangeVars>>

\* tail := atomic.LoadInt64(&fifo.tail)
EnqueueLoadTail(p) ==
    /\ fprocs[p].pc = "e.loadTail"
    /\ fprocs' = [fprocs EXCEPT ![p].tail = fifo.tail, ![p].pc = "e.loadHead"]
    /\ UNCHANGED <<fifo, fhist, spsc, sprocs, shist, earlyVars, fileVars, rangeVars>>

\* head := atomic.LoadInt64(&fifo.head); full: return false
EnqueueLoadHead(p) ==
    /\ fprocs[p].pc = "e.loadHead"
    /\ fprocs' = IF fprocs[p].tail - fifo.head >= fifo.capacity
                 THEN fifoReturn(p, NilItem, FALSE)
                 ELSE [fprocs EXCEPT ![p].head = fifo.head, ![p].pc = "e.cas"]
    /\ UNCHANGED <<fifo, fhist, spsc, sprocs, shist, earlyVars, fileVars, rangeVars>>

\* atomic.CompareAndSwapInt64(&fifo.tail, tail, tail+1); lost: return false
EnqueueCas(p) ==
    /\ fprocs[p].pc = "e.cas"
    /\ IF fifo.tail = fprocs[p].tail
       THEN /\ fifo' = [fifo EXCEPT !.tail = @ + 1]
            /\ fhist' = [fhist EXCEPT !.put = Append(@, fprocs[p].item)]
            /\ fprocs' = [fprocs EXCEPT ![p].pc = "e.store"]
       ELSE /\ fprocs' = fifoReturn(p, NilItem, FALSE)
            /\ UNCHANGED <<fifo, fhist>>
    /\ UNCHANGED <<spsc, sprocs, shist, earlyVars, fileVars, rangeVars>>

\* fifo.buffer[tail&fifo.mask] = item; return true
EnqueueStore(p) ==
    /\ fprocs[p].pc = "e.store"
    /\ fifo' = [fifo EXCEPT !.buffer[slot(fifo, fprocs[p].tail)] = fprocs[p].item]
    /\ fprocs' = fifoReturn(p, NilItem, TRUE)
    /\ UNCHANGED <<fhist, spsc, sprocs, shist, earlyVars, fileVars, rangeVars>>

\* a goroutine calls Dequeue(): the closed test
Dequeue(p) ==
    /\ fprocs[p].pc = "idle"
    /\ fprocs[p].n < MaxFifoCalls
    /\ fprocs' = IF fifo.closed = 1 /\ fifo.head >= fifo.tail
                 THEN [fifoReturn(p, NilItem, FALSE) EXCEPT ![p].n = @ + 1]
                 ELSE [fprocs EXCEPT ![p].pc = "d.loadHead", ![p].n = @ + 1,
                                     ![p].item = NilItem]
    /\ UNCHANGED <<fifo, fhist, spsc, sprocs, shist, earlyVars, fileVars, rangeVars>>

\* head := atomic.LoadInt64(&fifo.head)
DequeueLoadHead(p) ==
    /\ fprocs[p].pc = "d.loadHead"
    /\ fprocs' = [fprocs EXCEPT ![p].head = fifo.head, ![p].pc = "d.loadTail"]
    /\ UNCHANGED <<fifo, fhist, spsc, sprocs, shist, earlyVars, fileVars, rangeVars>>

\* tail := atomic.LoadInt64(&fifo.tail); empty: return nil, false
DequeueLoadTail(p) ==
    /\ fprocs[p].pc = "d.loadTail"
    /\ fprocs' = IF fprocs[p].head >= fifo.tail
                 THEN fifoReturn(p, NilItem, FALSE)
                 ELSE [fprocs EXCEPT ![p].tail = fifo.tail, ![p].pc = "d.cas"]
    /\ UNCHANGED <<fifo, fhist, spsc, sprocs, shist, earlyVars, fileVars, rangeVars>>

\* atomic.CompareAndSwapInt64(&fifo.head, head, head+1); lost: return nil, false
DequeueCas(p) ==
    /\ fprocs[p].pc = "d.cas"
    /\ IF fifo.head = fprocs[p].head
       THEN /\ fifo' = [fifo EXCEPT !.head = @ + 1]
            /\ fprocs' = [fprocs EXCEPT ![p].pc = "d.read"]
       ELSE /\ fprocs' = fifoReturn(p, NilItem, FALSE)
            /\ UNCHANGED fifo
    /\ UNCHANGED <<fhist, spsc, sprocs, shist, earlyVars, fileVars, rangeVars>>

\* item := fifo.buffer[index]
DequeueRead(p) ==
    /\ fprocs[p].pc = "d.read"
    /\ fprocs' = [fprocs EXCEPT ![p].item = fifo.buffer[slot(fifo, fprocs[p].head)],
                                ![p].pc = "d.clear"]
    /\ UNCHANGED <<fifo, fhist, spsc, sprocs, shist, earlyVars, fileVars, rangeVars>>

\* fifo.buffer[index] = nil; return item, true
DequeueClear(p) ==
    /\ fprocs[p].pc = "d.clear"
    /\ fifo' = [fifo EXCEPT !.buffer[slot(fifo, fprocs[p].head)] = NilItem]
    /\ fprocs' = fifoReturn(p, fprocs[p].item, TRUE)
    /\ fhist' = [fhist EXCEPT !.got = MapPut(@, fprocs[p].head + 1, fprocs[p].item)]
    /\ UNCHANGED <<spsc, sprocs, shist, earlyVars, fileVars, rangeVars>>

FifoNext ==
    \E p \in 1..MaxFifoProcs :
        \/ Enqueue(p)
        \/ EnqueueLoadTail(p)
        \/ EnqueueLoadHead(p)
        \/ EnqueueCas(p)
        \/ EnqueueStore(p)
        \/ Dequeue(p)
        \/ DequeueLoadHead(p)
        \/ DequeueLoadTail(p)
        \/ DequeueCas(p)
        \/ DequeueRead(p)
        \/ DequeueClear(p)

SpecFifo == Init /\ [][FifoNext]_vars

\* C35: HighPerformanceFIFO is a strict FIFO under concurrency.  The k-th
\* successful Dequeue (by the order in which the Dequeues took effect)
\* returns the item of the k-th Enqueue that took effect: an item that was
\* enqueued, never an empty or stale slot, none twice and none skipped.
C35_StrictFifo ==
    \A k \in DOMAIN fhist.got :
        k <= Len(fhist.put) /\ fhist.got[k] = fhist.put[k]

----------------------------------------------------------------------------
(* LockFreeSPSCQueue with its one producer and its one consumer            *)

spscReturn(side, item, ok) ==
    [sprocs EXCEPT ![side].pc = "idle", ![side].ret = [item |-> item, ok |-> ok]]

\* variant of pushFull with a fault: one item more than the capacity is let in
pushFull_oneMore(write, read, capacity) == write - read > capacity

\* if write-read >= q.capacity
pushFull(write, read, capacity) == write - read >= capacity

\* if read >= write
popEmpty(read, write) == read >= write

\* the producer calls Push(item)
PushCall ==
    /\ sprocs.producer.pc = "idle"
    /\ sprocs.producer.n < MaxPush
    /\ sprocs' = [sprocs EXCEPT !.producer.pc = "p.loadWrite", !.producer.n = @ + 1,
                                !.producer.item = <<sprocs.producer.n + 1>>]
    /\ UNCHANGED <<spsc, shist, fifo, fprocs, fhist, earlyVars, fileVars, rangeVars>>

\* write := atomic.LoadInt64(&q.write)
PushLoadWrite ==
    /\ sprocs.producer.pc = "p.loadWrite"
    /\ sprocs' = [sprocs EXCEPT !.producer.write = spsc.write,
                                !.producer.pc = "p.loadRead"]
    /\ UNCHANGED <<spsc, shist, fifo, fprocs, fhist, earlyVars, fileVars, rangeVars>>

\* read := atomic.LoadInt64(&q.read); full: return false
PushLoadRead ==
    /\ sprocs.producer.pc = "p.loadRead"
    /\ IF pushFull(sprocs.producer.write, spsc.read, spsc.capacity)
       THEN /\ sprocs' = spscReturn("producer", NilItem, FALSE)
            /\ shist' = [shist EXCEPT !.failed =
                            @ \cup {[op |-> "Push", pending |-> spsc.write - spsc.read]}]
       ELSE /\ sprocs' = [sprocs EXCEPT !.producer.read = spsc.read,
                                        !.producer.pc = "p.store"]
            /\ UNCHANGED shist
    /\ UNCHANGED <<spsc, fifo, fprocs, fhist, earlyVars, fileVars, rangeVars>>

\* q.buffer[write&q.mask] = item
PushStore ==
    /\ sprocs.producer.pc = "p.store"
    /\ spsc' = [spsc EXCEPT !.buffer[slot(spsc, sprocs.producer.write)] =
                                sprocs.producer.item]
    /\ sprocs' = [sprocs EXCEPT !.producer.pc = "p.add"]
    /\ UNCHANGED <<shist, fifo, fprocs, fhist, earlyVars, fileVars, rangeVars>>

\* atomic.AddInt64(&q.write, 1); return true
PushAdd ==
    /\ sprocs.producer.pc = "p.add"
    /\ spsc' = [spsc EXCEPT !.write = @ + 1]
    /\ sprocs' = spscReturn("producer", NilItem, TRUE)
    /\ shist' = [shist EXCEPT !.pushed = Append(@, sprocs.producer.item)]
    /\ UNCHANGED <<fifo, fprocs, fhist, earlyVars, fileVars, rangeVars>>

\* the consumer calls Pop()
PopCall ==
    /\ sprocs.consumer.pc = "idle"
    /\ sprocs.consumer.n < MaxPop
    /\ sprocs' = [sprocs EXCEPT !.consumer.pc = "c.loadRead", !.consumer.n = @ + 1,
                                !.consumer.item = NilItem]
    /\ UNCHANGED <<spsc, shist, fifo, fprocs, fhist, earlyVars, fileVars, rangeVars>>

\* read := atomic.LoadInt64(&q.read)
PopLoadRead ==
    /\ sprocs.consumer.pc = "c.loadRead"
    /\ sprocs' = [sprocs EXCEPT !.consumer.read = spsc.read,
                                !.consumer.pc = "c.loadWrite"]
    /\ UNCHANGED <<spsc, shist, fifo, fprocs, fhist, earlyVars, fileVars, rangeVars>>

\* write := atomic.LoadInt64(&q.write); empty: return nil, false
PopLoadWrite ==
    /\ sprocs.consumer.pc = "c.loadWrite"
    /\ IF popEmpty(sprocs.consumer.read, spsc.write)
       THEN /\ sprocs' = spscReturn("consumer", NilItem, FALSE)
            /\ shist' = [shist EXCEPT !.failed =
                            @ \cup {[op |-> "Pop", pending |-> spsc.write - spsc.read]}]
       ELSE /\ sprocs' = [sprocs EXCEPT !.consumer.write = spsc.write,
                                        !.consumer.pc = "c.read"]
            /\ UNCHANGED shist
    /\ UNCHANGED <<spsc, fifo, fprocs, fhist, earlyVars, fileVars, rangeVars>>

\* item := q.buffer[read&q.mask]
PopRead ==
    /\ sprocs.consumer.pc = "c.read"
    /\ sprocs' = [sprocs EXCEPT !.consumer.item =
                                    spsc.buffer[slot(spsc, sprocs.consumer.read)],
                                !.consumer.pc = "c.clear"]
    /\ UNCHANGED <<spsc, shist, fifo, fprocs, fhist, earlyVars, fileVars, rangeVars>>

\* q.buffer[read&q.mask] = nil
PopClear ==
    /\ sprocs.consumer.pc = "c.clear"
    /\ spsc' = [spsc EXCEPT !.buffer[slot(spsc, sprocs.consumer.read)] = NilItem]
    /\ sprocs' = [sprocs EXCEPT !.consumer.pc = "c.add"]
    /\ UNCHANGED <<shist, fifo, fprocs, fhist, earlyVars, fileVars, rangeVars>>

\* atomic.AddInt64(&q.read, 1); return item, true
PopAdd ==
    /\ sprocs.consumer.pc = "c.add"
    /\ spsc' = [spsc EXCEPT !.read = @ + 1]
    /\ sprocs' = spscReturn("consumer", sprocs.consumer.item, TRUE)
    /\ shist' = [shist EXCEPT !.popped = Append(@, sprocs.consumer.item)]
    /\ UNCHANGED <<fifo, fprocs, fhist, earlyVars, fileVars, rangeVars>>

SpscNext ==
    \/ PushCall
    \/ PushLoadWrite
    \/ PushLoadRead
    \/ PushStore
    \/ PushAdd
    \/ PopCall
    \/ PopLoadRead
    \/ PopLoadWrite
    \/ PopRead
    \/ PopClear
    \/ PopAdd

SpecSpsc == Init /\ [][SpscNext]_vars

\* C36: LockFreeSPSCQueue is correct for one producer and one consumer.
\* In every interleaving the items popped are the first of the items pushed,
\* in push order; a Push fails only with `capacity` items pending and a Pop
\* only with none pending; and 0 <= write - read <= capacity.
C36_SpscCorrect ==
    /\ 0 <= spsc.write - spsc.read
    /\ spsc.write - spsc.read <= spsc.capacity
    /\ Len(shist.pushed) = spsc.write
    /\ Len(shist.popped) = spsc.read
    /\ shist.popped = SubSeq(shist.pushed, 1, Len(shist.popped))
    /\ \A f \in shist.failed :
          /\ f.op = "Push" => f.pending = spsc.capacity
          /\ f.op = "Pop" => f.pending = 0

\* C36 witness: a Push has failed on the full queue and a Pop on the empty
\* one, and three items went through a buffer of two slots in push order.
C36_Witness ==
    /\ [op |-> "Push", pending |-> spsc.capacity] \in shist.failed
    /\ [op |-> "Pop", pending |-> 0] \in shist.failed
    /\ shist.popped = << <<1>>, <<2>>, <<4>> >>
    /\ Len(spsc.buffer) = 2

----------------------------------------------------------------------------
(* FileWriter: Write under fw.mu, and the rotation it calls.  sync.Mutex   *)
(* is not reentrant: Lock waits until the mutex is free, whoever holds it. *)

\* NewFileWriter(filePath, maxSize): the file is opened for appending, so it
\* may hold bytes already
NewFileWriter(maxSize, size) ==
    /\ ~fw.made
    /\ fw' = [made |-> TRUE, mu |-> 0, maxSize |-> maxSize, size |-> size,
              backups |-> 0]
    /\ UNCHANGED <<wprocs, earlyVars, queueVars, rangeVars>>

\* a goroutine calls fw.Write(p) with len(p) = len
WriteCall(p, len) ==
    /\ fw.made
    /\ wprocs[p].pc = "idle"
    /\ wprocs[p].n < MaxWrites
    /\ wprocs' = [wprocs EXCEPT ![p].pc = "w.lock", ![p].len = len, ![p].n = @ + 1,
                                ![p].rotated = FALSE]
    /\ UNCHANGED <<fw, earlyVars, queueVars, rangeVars>>

\* the body of rotate after its Lock, with its deferred Unlock: [fw, err]
rotate(f, renameOk, openOk) ==
    IF ~renameOk
    THEN [fw |-> [f EXCEPT !.mu = 0], err |-> "failed to rotate log file"]
    ELSE IF ~openOk
    THEN [fw |-> [f EXCEPT !.mu = 0, !.backups = @ + 1],
          err |-> "failed to create new log file"]
    ELSE [fw |-> [f EXCEPT !.mu = 0, !.backups = @ + 1, !.size = 0], err |-> ""]

\* fw.mu.Lock() returns: in Write, or in rotate, which then runs to its end
MuLock(p, renameOk, openOk) ==
    /\ wprocs[p].pc \in {"w.lock", "r.lock"}
    /\ fw.mu = 0
    /\ IF wprocs[p].pc = "w.lock"
       THEN /\ fw' = [fw EXCEPT !.mu = p]
            /\ wprocs' = [wprocs EXCEPT ![p].pc = "w.check"]
       ELSE LET r == rotate([fw EXCEPT !.mu = p], renameOk, openOk)
            IN  /\ fw' = r.fw
                /\ wprocs' = IF r.err = ""
                             THEN [wprocs EXCEPT ![p].pc = "w.write",
                                                 ![p].rotated = TRUE]
                             ELSE [wprocs EXCEPT ![p].pc = "idle",
                                                 ![p].ret = [n |-> 0, err |-> r.err]]
    /\ UNCHANGED <<earlyVars, queueVars, rangeVars>>

\* currentSize > fw.maxSize, with the size Stat gave (none when Stat failed)
needsRotation(f, len, statOk) ==
    f.maxSize > 0 /\ len + (IF statOk THEN f.size ELSE 0) > f.maxSize

\* Write's size test: on to the write, or into rotate() up to its Lock
WriteCheck(p, statOk) ==
    /\ wprocs[p].pc = "w.check"
    /\ wprocs' = [wprocs EXCEPT ![p].pc =
                     IF needsRotation(fw, wprocs[p].len, statOk)
                     THEN "r.lock" ELSE "w.write"]
    /\ UNCHANGED <<fw, earlyVars, queueVars, rangeVars>>

\* return fw.file.Write(p), and the deferred Unlock
WriteFile(p) ==
    /\ wprocs[p].pc = "w.write"
    /\ fw' = [fw EXCEPT !.size = @ + wprocs[p].len, !.mu = 0]
    /\ wprocs' = [wprocs EXCEPT ![p].pc = "idle",
                                ![p].ret = [n |-> wprocs[p].len, err |-> ""]]
    /\ UNCHANGED <<earlyVars, queueVars, rangeVars>>

FileNext ==
    \/ \E maxSize \in {0, MaxLogSize}, size \in 0..1 : NewFileWriter(maxSize, size)
    \/ \E p \in 1..MaxWriters, len \in 1..MaxLogSize : WriteCall(p, len)
    \/ \E p \in 1..MaxWriters, renameOk \in BOOLEAN, openOk \in BOOLEAN :
          MuLock(p, renameOk, openOk)
    \/ \E p \in 1..MaxWriters, statOk \in BOOLEAN : WriteCheck(p, statOk)
    \/ \E p \in 1..MaxWriters : WriteFile(p)

SpecFile == Init /\ [][FileNext]_vars

insideWriteCall(p) == wprocs[p].pc # "idle"

\* the goroutine is not waiting, or the mutex it waits for is free
canGoOn(p) == wprocs[p].pc \in {"w.lock", "r.lock"} => fw.mu = 0

\* C37: log rotation terminates.  Every Write call returns, also one that
\* has to rotate the file first: while goroutines are inside Write, one of
\* them can take its next step, so that no Write is left waiting forever.
C37_WriteReturns ==
    (\E p \in 1..MaxWriters : insideWriteCall(p))
        => \E p \in 1..MaxWriters : insideWriteCall(p) /\ canGoOn(p)

----------------------------------------------------------------------------
(* ParseRange.  A header is a sequence of characters; numbers are parsed   *)
(* from their digits.                                                      *)

MaxTotalSize == 3       \* totalSize of the data

BytesPrefix == <<"b", "y", "t", "e", "s", "=">>

\* strings.ToLower, for the letters the headers are made of
lowerOf(ch) ==
    CASE ch = "B" -> "b" [] ch = "Y" -> "y" [] ch = "T" -> "t"
      [] ch = "E" -> "e" [] ch = "S" -> "s" [] OTHER -> ch

ToLower(s) == [i \in 1..Len(s) |-> lowerOf(s[i])]

HasPrefix(s, prefix) ==
    Len(s) >= Len(prefix) /\ SubSeq(s, 1, Len(prefix)) = prefix

TrimPrefix(s, prefix) ==
    IF HasPrefix(s, prefix) THEN SubSeq(s, Len(prefix) + 1, Len(s)) ELSE s

\* strings.Split(s, sep) for a one-character sep
RECURSIVE SplitBy(_, _, _, _)
SplitBy(s, sep, i, cur) ==
    IF i > Len(s) THEN <<cur>>
    ELSE IF s[i] = sep THEN <<cur>> \o SplitBy(s, sep, i + 1, <<>>)
    ELSE SplitBy(s, sep, i + 1, Append(cur, s[i]))

RECURSIVE TrimSpace(_)
TrimSpace(s) ==
    IF s # <<>> /\ Head(s) = " " THEN TrimSpace(Tail(s))
    ELSE IF s # <<>> /\ s[Len(s)] = " " THEN TrimSpace(SubSeq(s, 1, Len(s) - 1))
    ELSE s

\* strings.Index(s, ch) + 1: the first position of ch, 0 when there is none
RECURSIVE IndexFrom(_, _, _)
IndexFrom(s, ch, i) ==
    IF i > Len(s) THEN 0 ELSE IF s[i] = ch THEN i ELSE IndexFrom(s, ch, i + 1)

isDigit(ch) == ch \in {"0", "1", "2", "3", "4", "5", "6", "7", "8", "9"}

digitVal(ch) ==
    CASE ch = "0" -> 0 [] ch = "1" -> 1 [] ch = "2" -> 2 [] ch = "3" -> 3
      [] ch = "4" -> 4 [] ch = "5" -> 5 [] ch = "6" -> 6 [] ch = "7" -> 7
      [] ch = "8" -> 8 [] ch = "9" -> 9

RECURSIVE digitsVal(_, _)
digitsVal(s, acc) ==
    IF s = <<>> THEN acc ELSE digitsVal(Tail(s), acc * 10 + digitVal(Head(s)))

\* strconv.ParseInt(s, 10, 64): an optional sign, then one digit or more
ParseInt(s) ==
    LET signed == s # <<>> /\ Head(s) \in {"+", "-"}
        ds == IF signed THEN Tail(s) ELSE s
    IN  IF ds = <<>> \/ \E i \in 1..Len(ds) : ~isDigit(ds[i])
        THEN [ok |-> FALSE, val |-> 0]
        ELSE [ok |-> TRUE,
              val |-> IF signed /\ Head(s) = "-" THEN 0 - digitsVal(ds, 0)
                      ELSE digitsVal(ds, 0)]

RangeSpec(start, end) == [Start |-> start, End |-> end, Length |-> end - start + 1]

\* the body of ParseRange's loop for one part that is not empty: [err, spec]
parsePart(part, totalSize) ==
    LET sepIdx == IndexFrom(part, "-", 1)
        startStr == SubSeq(part, 1, sepIdx - 1)
        endStr == SubSeq(part, sepIdx + 1, Len(part))
        ps == ParseInt(startStr)
        pe == ParseInt(endStr)
    IN  IF sepIdx = 0 THEN [err |-> "invalid range format", spec |-> RangeSpec(0, 0)]
        ELSE IF startStr # <<>> /\ (~ps.ok \/ ps.val < 0)
        THEN [err |-> "invalid start position", spec |-> RangeSpec(0, 0)]
        ELSE IF endStr # <<>> /\ (~pe.ok \/ pe.val < 0)
        THEN [err |-> "invalid end position", spec |-> RangeSpec(0, 0)]
        ELSE IF startStr = <<>> /\ endStr = <<>>
        THEN [err |-> "empty range", spec |-> RangeSpec(0, 0)]
        ELSE LET start == IF startStr = <<>> THEN totalSize - pe.val ELSE ps.val
                 end == IF startStr = <<>> \/ endStr = <<>> THEN totalSize - 1
                        ELSE pe.val
             IN  IF start > end \/ start >= totalSize \/ end >= totalSize
                 THEN [err |-> "range out of bounds", spec |-> RangeSpec(0, 0)]
                 ELSE [err |-> "", spec |-> RangeSpec(start, end)]

\* the loop of ParseRange over the parts: [specs, isRange, err]
RECURSIVE parseParts(_, _, _, _)
parseParts(parts, i, totalSize, specs) ==
    IF i > Len(parts) THEN [specs |-> specs, isRange |-> Len(specs) > 0, err |-> ""]
    ELSE LET part == TrimSpace(parts[i]) IN
         IF part = <<>> THEN parseParts(parts, i + 1, totalSize, specs)
         ELSE LET r == parsePart(part, totalSize) IN
              IF r.err # "" THEN [specs |-> <<>>, isRange |-> FALSE, err |-> r.err]
              ELSE parseParts(parts, i + 1, totalSize, Append(specs, r.spec))

ParseRange(rangeHeader, totalSize) ==
    IF rangeHeader = <<>> THEN [specs |-> <<>>, isRange |-> FALSE, err |-> ""]
    ELSE IF ~HasPrefix(ToLower(rangeHeader), BytesPrefix)
    THEN [specs |-> <<>>, isRange |-> FALSE, err |-> "unsupported range type"]
    ELSE parseParts(SplitBy(TrimPrefix(rangeHeader, BytesPrefix), ",", 1, <<>>),
                    1, totalSize, <<>>)

\* the ranges a header is made of
RangeParts ==
    { <<"0", "-", "1">>, <<"1", "-">>, <<"5", "-">>, <<"-", "2">>, <<"-", "5">>,
      <<"-", "0">>, <<"2", "-", "1">>, <<"0", "-", "9">>, <<" ", "0", "-", "0">>,
      <<"1">>, <<"-">>, <<"a", "-", "1">>, <<"1", "-", "-", "2">>, <<>> }

RangeHeaders ==
    { <<>>, <<"i", "t", "e", "m", "s", "=", "0", "-", "1">>,
      <<"B", "y", "t", "e", "s", "=", "0", "-", "1">> }
    \cup { BytesPrefix \o a : a \in RangeParts }
    \cup { BytesPrefix \o a \o <<",">> \o b : a \in RangeParts, b \in RangeParts }

\* ParseRange(rangeHeader, totalSize) is called
ParseRangeCall(rangeHeader, totalSize) ==
    /\ pr' = [header |-> rangeHeader, totalSize |-> totalSize]
                @@ ParseRange(rangeHeader, totalSize)
    /\ UNCHANGED <<earlyVars, queueVars, fileVars>>

RangeNext ==
    \E h \in RangeHeaders, totalSize \in 1..MaxTotalSize : ParseRangeCall(h, totalSize)

SpecRange == Init /\ [][RangeNext]_vars

\* C38: ParseRange returns only in-bounds ranges.  For totalSize > 0, every
\* RangeSpec returned without an error has 0 <= Start <= End < totalSize
\* and Length = End - Start + 1, for the forms a-b, a- and -n.
C38_RangesInBounds ==
    (pr.totalSize > 0 /\ pr.err = "") =>
        \A i \in 1..Len(pr.specs) :
            /\ 0 <= pr.specs[i].Start
            /\ pr.specs[i].Start <= pr.specs[i].End
            /\ pr.specs[i].End < pr.totalSize
            /\ pr.specs[i].Length = pr.specs[i].End - pr.specs[i].Start + 1

----------------------------------------------------------------------------
(* ServeRange.  The data source is a RangeReader; the bytes of the data    *)
(* are their offsets.                                                      *)

StatusPartialContent == 206
StatusRequestedRangeNotSatisfiable == 416

\* a reader that is nil, and a reader over size bytes whose ReadRange
\* succeeds or reports an error
NilReader == [isNil |-> TRUE, size |-> 0, readOk |-> FALSE]
Reader(size, readOk) == [isNil |-> FALSE, size |-> size, readOk |-> readOk]

readerData(size) == [i \in 1..size |-> i - 1]

\* reader.ReadRange(ctx, start, end): the bytes start..end, or an error;
\* a range outside the data is an error
ReadRange(reader, start, end) ==
    IF reader.readOk /\ 0 <= start /\ start <= end /\ end < reader.size
    THEN [ok |-> TRUE, data |-> SubSeq(readerData(reader.size), start + 1, end + 1)]
    ELSE [ok |-> FALSE, data |-> <<>>]

\* strconv.FormatInt(n, 10)
RECURSIVE formatDigits(_)
formatDigits(n) ==
    LET d == <<"0", "1", "2", "3", "4", "5", "6", "7", "8", "9">>[(n % 10) + 1]
    IN  IF n < 10 THEN <<d>> ELSE Append(formatDigits(n \div 10), d)

FormatInt(n) == IF n < 0 THEN <<"-">> \o formatDigits(0 - n) ELSE formatDigits(n)

\* fmt.Sprintf("bytes %d-%d/%d", start, end, fileSize)
contentRange(start, end, fileSize) ==
    <<"b", "y", "t", "e", "s", " ">> \o FormatInt(start) \o <<"-">> \o FormatInt(end)
        \o <<"/">> \o FormatInt(fileSize)

\* fmt.Sprintf("bytes */%d", fileSize)
contentRangeAll(fileSize) ==
    <<"b", "y", "t", "e", "s", " ", "*", "/">> \o FormatInt(fileSize)

\* the bytes io.Copy hands to the writer
Copied(data) == [enc |-> "copy", text |-> data, error |-> FALSE, status |-> 0]

\* io.Copy(c.writer, reader): the bytes go to the writer itself, not
\* through c.Write.  A writer that has received no WriteHeader sends 200
\* with the first bytes of the body.
ioCopy(cw, data) ==
    IF data = <<>> THEN cw
    ELSE [cw EXCEPT !.w.codes = IF @ = <<>> THEN <<StatusOK>> ELSE @,
                    !.w.body = Append(@, Copied(data))]

ServeRange(cw, reader, rangeHeader) ==
    IF reader.isNil THEN InternalServerError(cw, "range reader is nil")
    ELSE IF reader.size <= 0 THEN BadRequest(cw, "invalid data size")
    ELSE
    LET fileSize == reader.size
        h == SetHeader(SetHeader(SetHeader(cw, "Accept-Ranges", <<"bytes">>),
                                 "Content-Disposition", <<"attachment; filename=\"name\"">>),
                       "Content-Type", <<"application/octet-stream">>)
        p == ParseRange(rangeHeader, fileSize)
    IN  IF p.err # ""
        THEN Fail(SetHeader(h, "Content-Range", <<contentRangeAll(fileSize)>>),
                  StatusRequestedRangeNotSatisfiable, "invalid range: " \o p.err)
        ELSE IF ~p.isRange
        THEN LET s == SetHeader(SetStatus(h, StatusOK),
                                "Content-Length", <<FormatInt(fileSize)>>)
                 fullReader == ReadRange(reader, 0, fileSize - 1)
             IN  IF ~fullReader.ok
                 THEN InternalServerError(s, "read full data failed")
                 ELSE ioCopy(s, fullReader.data)
        ELSE LET spec == p.specs[1]
                 s == SetHeader(SetHeader(SetStatus(h, StatusPartialContent),
                                          "Content-Range",
                                          <<contentRange(spec.Start, spec.End, fileSize)>>),
                                "Content-Length", <<FormatInt(spec.Length)>>)
                 rangeDataReader == ReadRange(reader, spec.Start, spec.End)
             IN  IF ~rangeDataReader.ok
                 THEN InternalServerError(s, "read range data failed")
                 ELSE ioCopy(s, rangeDataReader.data)

Readers ==
    { NilReader } \cup { Reader(size, ok) : size \in 0..MaxTotalSize, ok \in BOOLEAN }

\* the Range headers of the requests
ServeHeaders ==
    { <<>>, <<"i", "t", "e", "m", "s", "=", "0", "-", "1">>,
      BytesPrefix \o <<"0", "-", "0", ",", "1", "-", "1">> }
    \cup { BytesPrefix \o a : a \in RangeParts }

\* a handler answers with ServeRange, once in a request; pr keeps the
\* ParseRange call ServeRange made
CallServeRange(reader, rangeHeader) ==
    /\ calls < MaxCalls
    /\ pr = NoRangeCall
    /\ LET cw == ServeRange(CW, reader, rangeHeader) IN
        /\ ctx' = cw.c
        /\ writer' = cw.w
    /\ pr' = IF reader.isNil \/ reader.size <= 0 THEN pr
             ELSE [header |-> rangeHeader, totalSize |-> reader.size]
                      @@ ParseRange(rangeHeader, reader.size)
    /\ calls' = calls + 1
    /\ UNCHANGED <<router, group, handlerChain, stack, log, phase, served>>
    /\ UNCHANGED <<trieVars, poolVars, mergeVars, groupVars, storeVars, shareVars>>
    /\ UNCHANGED <<queueVars, fileVars>>

\* the Context is reset for the next request, which has its own writer
ServeReset ==
    /\ calls > 0
    /\ ctx' = Reset(ctx, "GET", <<Slash>>, EmptyMap)
    /\ writer' = NewWriter
    /\ calls' = 0
    /\ pr' = NoRangeCall
    /\ UNCHANGED <<router, group, handlerChain, stack, log, phase, served>>
    /\ UNCHANGED <<trieVars, poolVars, mergeVars, groupVars, storeVars, shareVars>>
    /\ UNCHANGED <<queueVars, fileVars>>

ServeNext ==
    \/ \E reader \in Readers, h \in ServeHeaders : CallServeRange(reader, h)
    \/ \E code \in StatusCodes : CallSetStatus(code)
    \/ CallWrite
    \/ ServeReset

SpecServe == Init /\ [][ServeNext]_vars

\* ServeRange parsed the Range header without an error and its bytes are
\* the first bytes of the body
servedCopy ==
    /\ pr.totalSize > 0
    /\ pr.err = ""
    /\ writer.body # <<>>
    /\ writer.body[1].enc = "copy"

\* the request carried one byte range that lies in the data
satisfiableSingleRange ==
    /\ pr.isRange
    /\ Len(pr.specs) = 1
    /\ 0 <= pr.specs[1].Start
    /\ pr.specs[1].Start <= pr.specs[1].End
    /\ pr.specs[1].End < pr.totalSize

\* C39: partial content status.  For a request with a satisfiable single
\* byte range ServeRange sends 206 on the wire before the body, with the
\* Content-Range and Content-Length of the range; without a Range header
\* it sends 200 with the full data.  The writer sends 200 when body bytes
\* reach it before any status line.
C39_PartialContentStatus ==
    /\ (servedCopy /\ satisfiableSingleRange) =>
        /\ writer.codes # <<>>
        /\ writer.codes[1] = StatusPartialContent
        /\ writer.header["Content-Range"]
             = <<contentRange(pr.specs[1].Start, pr.specs[1].End, pr.totalSize)>>
        /\ writer.header["Content-Length"] = <<FormatInt(pr.specs[1].Length)>>
        /\ writer.body[1].text
             = SubSeq(readerData(pr.totalSize), pr.specs[1].Start + 1, pr.specs[1].End + 1)
    /\ (servedCopy /\ pr.header = <<>>) =>
        /\ writer.codes # <<>>
        /\ writer.codes[1] = StatusOK
        /\ writer.body[1].text = readerData(pr.totalSize)

====
